---- MODULE Spec2Model ----
(***************************************************************************)
(* Derived-metrics engine of the workout planner: calendar utilities,      *)
(* streak calculator, XP model, points ledger and dashboard settings.      *)
(* Instants are whole hours since 1970-01-01T00:00Z.  The host's local     *)
(* time zone is part of the environment (JavaScript Date works in it).     *)
(***************************************************************************)
EXTENDS Integers, Sequences, FiniteSets, TLC

\* ------------------------------------------------------------------------
\* Bounds of the model
\* ------------------------------------------------------------------------
MaxBack == 3
MaxCompletions == 2
MaxPoints == 250
MaxMonthStr == 13
MaxDayStr == 32
Window == 30
MaxLoads == 2
MaxHistory == 2

\* ------------------------------------------------------------------------
\* Values of the JavaScript runtime
\* ------------------------------------------------------------------------
\* Number values are integers; NaN (also standing for undefined where a
\* number is expected) and an invalid Date are integers outside every range
\* the model computes with.
NaN == -2000000000
InvalidDate == -2000000001

HoursPerDay == 24

IsLeap(y) == (y % 4 = 0 /\ y % 100 # 0) \/ y % 400 = 0

DaysInMonth(y, m) ==
  IF m = 2 THEN (IF IsLeap(y) THEN 29 ELSE 28)
  ELSE IF m \in {4, 6, 9, 11} THEN 30 ELSE 31

\* Day number of the proleptic Gregorian date y-m-d, 1970-01-01 being day 0.
DaysFromCivil(y, m, d) ==
  LET yy  == IF m <= 2 THEN y - 1 ELSE y
      era == yy \div 400
      yoe == yy - era * 400
      mp  == (m + 9) % 12
      doy == (153 * mp + 2) \div 5 + d - 1
      doe == yoe * 365 + yoe \div 4 - yoe \div 100 + doy
  IN era * 146097 + doe - 719468

\* The date [y, m, d] of day number n.
CivilFromDays(n) ==
  LET z   == n + 719468
      era == z \div 146097
      doe == z - era * 146097
      yoe == (doe - doe \div 1460 + doe \div 36524 - doe \div 146096) \div 365
      doy == doe - (365 * yoe + yoe \div 4 - yoe \div 100)
      mp  == (5 * doy + 2) \div 153
      d   == doy - (153 * mp + 2) \div 5 + 1
      m   == IF mp < 10 THEN mp + 3 ELSE mp - 9
      y   == yoe + era * 400
  IN [y |-> IF m <= 2 THEN y + 1 ELSE y, m |-> m, d |-> d]

\* Instant (UTC hours) of y-m-d at hour h UTC.
UtcHour(y, m, d, h) == DaysFromCivil(y, m, d) * HoursPerDay + h

\* ------------------------------------------------------------------------
\* Local time zones of the host.  Off(z, t) is the local offset from UTC, in
\* hours, in force at instant t.
\* ------------------------------------------------------------------------
Zones == {"NewYork", "Athens", "London", "Santiago"}

LondonDstStart == UtcHour(2024, 3, 31, 1)
LondonDstEnd == UtcHour(2024, 10, 27, 1)
SantiagoDstEnd == UtcHour(2024, 4, 7, 3)
SantiagoDstStart == UtcHour(2024, 9, 8, 4)

Off(z, t) ==
  CASE z = "NewYork" -> -5
    [] z = "Athens" -> 2
    [] z = "London" -> IF t >= LondonDstStart /\ t < LondonDstEnd THEN 1 ELSE 0
    [] z = "Santiago" -> IF t >= SantiagoDstEnd /\ t < SantiagoDstStart THEN -4 ELSE -3

ZoneOffsets(z) ==
  CASE z = "NewYork" -> {-5}
    [] z = "Athens" -> {2}
    [] z = "London" -> {0, 1}
    [] z = "Santiago" -> {-4, -3}

SetMin(S) == CHOOSE x \in S : \A y \in S : x <= y

\* Local wall-clock hours (since 1970-01-01T00:00 local) shown at instant t.
LocalHours(z, t) == t + Off(z, t)

\* The instant at which zone z shows wall-clock l.  A wall-clock time that
\* occurs twice denotes its first occurrence; one that is skipped is read
\* with the offset in force before the transition.
LocalToUTC(z, l) ==
  LET C == {t \in {l - o : o \in ZoneOffsets(z)} : LocalHours(z, t) = l}
  IN IF C # {} THEN SetMin(C) ELSE l - Off(z, l - 2 * HoursPerDay)

\* Date getters, in local time.
LocalDay(z, t) == LocalHours(z, t) \div HoursPerDay
GetHours(z, t) == LocalHours(z, t) % HoursPerDay
LocalCivil(z, t) == CivilFromDays(LocalDay(z, t))
GetFullYear(z, t) == LocalCivil(z, t).y
GetMonth(z, t) == LocalCivil(z, t).m - 1
GetDate(z, t) == LocalCivil(z, t).d

\* new Date(year, monthIndex, day, hours, 0, 0, 0): fields out of range carry
\* over, and a year 0..99 means 1900 + year.
MakeDay(y, mi, d) == DaysFromCivil(y + mi \div 12, (mi % 12) + 1, 1) + d - 1

NewDate(z, y, mi, d, h) ==
  IF y = NaN \/ mi = NaN \/ d = NaN THEN InvalidDate
  ELSE LET yy == IF y >= 0 /\ y <= 99 THEN 1900 + y ELSE y
       IN LocalToUTC(z, MakeDay(yy, mi, d) * HoursPerDay + h)

\* Date.prototype.setDate(v) and setHours(0, 0, 0, 0).
SetDate(z, t, v) ==
  IF t = InvalidDate \/ v = NaN THEN InvalidDate
  ELSE LocalToUTC(z, MakeDay(GetFullYear(z, t), GetMonth(z, t), v) * HoursPerDay
                     + GetHours(z, t))

SetHoursZero(z, t) == LocalToUTC(z, LocalDay(z, t) * HoursPerDay)

\* Date.prototype.toDateString(): the local calendar date.
ToDateString(z, t) == LocalCivil(z, t)

\* The first ten characters of Date.prototype.toISOString(): the UTC
\* calendar date of the instant.
IsoDate(t) == CivilFromDays(t \div HoursPerDay)

\* ------------------------------------------------------------------------
\* Strings are sequences of one-character strings.
\* ------------------------------------------------------------------------
Digits == <<"0", "1", "2", "3", "4", "5", "6", "7", "8", "9">>
IsDigit(c) == \E i \in 1..10 : Digits[i] = c
DigitVal(c) == (CHOOSE i \in 1..10 : Digits[i] = c) - 1

\* String(n) for an integer n.
RECURSIVE NatStr(_)
NatStr(n) == IF n < 10 THEN <<Digits[n + 1]>>
             ELSE NatStr(n \div 10) \o <<Digits[(n % 10) + 1]>>
NumStr(n) == IF n = NaN THEN <<"N", "a", "N">>
             ELSE IF n < 0 THEN <<"-">> \o NatStr(0 - n) ELSE NatStr(n)

\* String.prototype.padStart(2, "0").
PadStart2(str) == IF Len(str) < 2 THEN <<"0">> \o str ELSE str

\* String.prototype.split(sep) for a one-character separator.
RECURSIVE SplitFrom(_, _, _, _)
SplitFrom(str, sep, i, cur) ==
  IF i > Len(str) THEN <<cur>>
  ELSE IF str[i] = sep THEN <<cur>> \o SplitFrom(str, sep, i + 1, <<>>)
  ELSE SplitFrom(str, sep, i + 1, Append(cur, str[i]))
Split(str, sep) == SplitFrom(str, sep, 1, <<>>)

\* String.prototype.trim().
RECURSIVE TrimEnd(_)
TrimEnd(str) == IF str # <<>> /\ str[Len(str)] = " "
                THEN TrimEnd(SubSeq(str, 1, Len(str) - 1)) ELSE str

\* parseInt(str, 10): leading blanks are skipped, an optional sign is read,
\* then the longest run of digits; NaN when there is no digit.
RECURSIVE SkipBlanks(_)
SkipBlanks(str) == IF str # <<>> /\ Head(str) = " " THEN SkipBlanks(Tail(str)) ELSE str
RECURSIVE ReadDigits(_, _)
ReadDigits(str, acc) ==
  IF str # <<>> /\ IsDigit(Head(str))
  THEN ReadDigits(Tail(str), acc * 10 + DigitVal(Head(str)))
  ELSE acc
ParseInt(str) ==
  LET t    == SkipBlanks(str)
      neg  == t # <<>> /\ Head(t) = "-"
      body == IF t # <<>> /\ Head(t) \in {"-", "+"} THEN Tail(t) ELSE t
  IN IF body = <<>> \/ ~IsDigit(Head(body)) THEN NaN
     ELSE IF neg THEN 0 - ReadDigits(body, 0) ELSE ReadDigits(body, 0)

Trim(str) == TrimEnd(SkipBlanks(str))

\* x || 1 for a number x.
OrOne(x) == IF x = NaN \/ x = 0 THEN 1 ELSE x

\* ------------------------------------------------------------------------
\* Calendar utilities
\* ------------------------------------------------------------------------
dayKey(z, t) == ToDateString(z, t)

\* dateToYMD writing the month index instead of the month number.
dateToYMDMonthIndex(z, t) ==
  LET yyyy == GetFullYear(z, t)
      mm   == PadStart2(NumStr(GetMonth(z, t)))
      dd   == PadStart2(NumStr(GetDate(z, t)))
  IN NumStr(yyyy) \o <<"-">> \o mm \o <<"-">> \o dd

dateToYMD(z, t) ==
  LET yyyy == GetFullYear(z, t)
      mm   == PadStart2(NumStr(GetMonth(z, t) + 1))
      dd   == PadStart2(NumStr(GetDate(z, t)))
  IN NumStr(yyyy) \o <<"-">> \o mm \o <<"-">> \o dd

\* The string YYYY-MM-DD of a calendar date [y, m, d].
YmdOfCivil(c) ==
  NumStr(c.y) \o <<"-">> \o PadStart2(NumStr(c.m)) \o <<"-">> \o PadStart2(NumStr(c.d))

\* ymdToBounds ending the range 24 hours after its start.
ymdToBoundsPlus24h(z, ymd) ==
  LET parts == Split(ymd, "-")
      num(i) == IF i <= Len(parts) THEN ParseInt(parts[i]) ELSE NaN
      s == NewDate(z, num(1), OrOne(num(2)) - 1, OrOne(num(3)), 0)
  IN IF s = InvalidDate
     THEN [threw |-> TRUE, startISO |-> InvalidDate, endISO |-> InvalidDate]
     ELSE [threw |-> FALSE, startISO |-> s, endISO |-> s + HoursPerDay]

\* ymdToBounds without the "|| 1" defaults of month and day.
ymdToBoundsNoDefault(z, ymd) ==
  LET parts == Split(ymd, "-")
      num(i) == IF i <= Len(parts) THEN ParseInt(parts[i]) ELSE NaN
      m == num(2)
      s == NewDate(z, num(1), IF m = NaN THEN NaN ELSE m - 1, num(3), 0)
      e == IF s = InvalidDate THEN InvalidDate ELSE SetDate(z, s, GetDate(z, s) + 1)
  IN IF s = InvalidDate
     THEN [threw |-> TRUE, startISO |-> InvalidDate, endISO |-> InvalidDate]
     ELSE [threw |-> FALSE, startISO |-> s, endISO |-> e]

\* The result record carries threw = TRUE when s.toISOString() throws a
\* RangeError (s is an invalid Date) and no range is returned.
ymdToBounds(z, ymd) ==
  LET parts == Split(ymd, "-")
      num(i) == IF i <= Len(parts) THEN ParseInt(parts[i]) ELSE NaN
      y == num(1)
      m == num(2)
      d == num(3)
      s == NewDate(z, y, OrOne(m) - 1, OrOne(d), 0)
      e == IF s = InvalidDate THEN InvalidDate ELSE SetDate(z, s, GetDate(z, s) + 1)
  IN IF s = InvalidDate
     THEN [threw |-> TRUE, startISO |-> InvalidDate, endISO |-> InvalidDate]
     ELSE [threw |-> FALSE, startISO |-> s, endISO |-> e]

\* JavaScript's % keeps the sign of the dividend.
JsRem(a, b) == IF a >= 0 THEN a % b ELSE 0 - ((0 - a) % b)

\* xpFromPoints counting levels from 0.
xpFromPointsLevelFromZero(points) ==
  LET p == IF points = NaN THEN 0 ELSE points
      level == p \div 100
      inLevel == JsRem(p, 100)
      pct == IF inLevel < 0 THEN 0 ELSE IF inLevel > 100 THEN 100 ELSE inLevel
  IN [level |-> level, inLevel |-> inLevel, pct100 |-> pct, nextAt |-> level * 100]

\* pct is a fraction; it is kept as a number of hundredths.
xpFromPoints(points) ==
  LET p == IF points = NaN THEN 0 ELSE points
      level == (p \div 100) + 1
      inLevel == JsRem(p, 100)
      pct == IF inLevel < 0 THEN 0 ELSE IF inLevel > 100 THEN 100 ELSE inLevel
  IN [level |-> level, inLevel |-> inLevel, pct100 |-> pct, nextAt |-> level * 100]

\* The streak of the dashboard (revision with the day timeline): rows is the
\* set of completed_at instants of the fetched completion rows.
RECURSIVE StreakWalk(_, _, _, _)
StreakWalk(z, days, d, s) ==
  IF ToDateString(z, d) \in days
  THEN StreakWalk(z, days, SetDate(z, d, GetDate(z, d) - 1), s + 1)
  ELSE s

calcStreakFromCompletions(z, t, rows) ==
  IF rows = {} THEN 0
  ELSE StreakWalk(z, {dayKey(z, r) : r \in rows}, SetHoursZero(z, t), 0)

\* The streak of src/app/App.js: its dayKey is the UTC date of the local
\* midnight.
dayKeyISO(z, t) == IsoDate(SetHoursZero(z, t))

RECURSIVE StreakWalkISO(_, _, _, _)
StreakWalkISO(z, daysSet, d, s) ==
  IF dayKeyISO(z, d) \in daysSet
  THEN StreakWalkISO(z, daysSet, SetDate(z, d, GetDate(z, d) - 1), s + 1)
  ELSE s

computeStreakFromDays(z, t, daysSet) == StreakWalkISO(z, daysSet, SetHoursZero(z, t), 0)

\* Date.prototype.getDay(): 0 is Sunday (1970-01-01 was a Thursday).
GetDay(z, t) == (LocalDay(z, t) + 4) % 7

\* startOfWeek with weeks starting on Sunday.
startOfWeekSundayFirst(z, t) ==
  LET day  == GetDay(z, t)
      diff == 0 - day
  IN SetHoursZero(z, SetDate(z, t, GetDate(z, t) + diff))

startOfWeek(z, t) ==
  LET day  == GetDay(z, t)
      diff == (IF day = 0 THEN -6 ELSE 1) - day
  IN SetHoursZero(z, SetDate(z, t, GetDate(z, t) + diff))

\* src/app/App.js: the same instant, returned as x.toISOString().  ISO strings
\* written by toISOString have one fixed format, so their order as strings
\* is the order of the instants; they are kept as instants.
startOfWeekISO(z, t) ==
  LET day  == GetDay(z, t)
      diff == (IF day = 0 THEN -6 ELSE 1) - day
  IN SetHoursZero(z, SetDate(z, t, GetDate(z, t) + diff))

\* /^\d{2}:\d{2}$/.test(str)
IsHHMM(str) ==
  /\ Len(str) = 5
  /\ \A i \in 1..5 : IF i = 3 THEN str[i] = ":" ELSE IsDigit(str[i])

T1900 == <<"1", "9", ":", "0", "0">>

\* ------------------------------------------------------------------------
\* The store and the clients
\* ------------------------------------------------------------------------
Clients == {"c1", "c2"}
\* The clients whose Dashboard screen is mounted.
DashClients == {"c1"}
Workouts == {"w1"}
AwardDelta == 10
\* session.user.id, and another user of the same store.
User == "u1"
OtherUser == "u2"
\* The null of a workout_id.
Null == "null"
\* The name column of a workouts row.
WorkoutName(w) == <<"P", "u", "s", "h">>

\* The user's row of user_settings; exists = FALSE when there is none.  A
\* column that was never written is null: NaN for a number, the empty string
\* for a text.
NoRow == [exists |-> FALSE, goal |-> "", level |-> "", weekly_target |-> NaN,
          reminders_enabled |-> FALSE, reminder_time |-> <<>>, points |-> NaN,
          updated_at |-> NaN]

\* upsert(row): the columns given replace those of the existing row, or start
\* a new row.
Upsert(row, cols) ==
  [f \in DOMAIN NoRow |->
     IF f = "exists" THEN TRUE
     ELSE IF f \in DOMAIN cols THEN cols[f]
     ELSE row[f]]

\* Number.isFinite(setg?.points) ? setg.points : 0, data being null when the
\* read failed.
PointsOf(ok, row) == IF ok /\ row.exists /\ row.points # NaN THEN row.points ELSE 0

\* .order("completed_at", { ascending: false })
RECURSIVE OrderDesc(_)
OrderDesc(rows) ==
  IF rows = <<>> THEN <<>>
  ELSE LET i == CHOOSE i \in 1..Len(rows) :
                  \A j \in 1..Len(rows) :
                    \/ rows[j].completed_at < rows[i].completed_at
                    \/ rows[j].completed_at = rows[i].completed_at /\ j >= i
       IN <<rows[i]>> \o OrderDesc(SubSeq(rows, 1, i - 1) \o SubSeq(rows, i + 1, Len(rows)))

RowTimes(rows) == {rows[i].completed_at : i \in 1..Len(rows)}
CountFrom(rows, t) == Cardinality({i \in 1..Len(rows) : rows[i].completed_at >= t})

\* The weekly count counting only completions after the week's start.
weeklyAfterStart(z, t, comps) ==
  Cardinality({i \in 1..Len(comps) : comps[i].completed_at > startOfWeek(z, t)})

\* const weekly = comps.filter((x) => new Date(x.completed_at) >= sow).length
weekly(z, t, comps) == CountFrom(comps, startOfWeek(z, t))

\* src/app/App.js: logs.filter((x) => x.completed_at >= weekStart).length
weekCount(z, t, logs) == CountFrom(logs, startOfWeekISO(z, t))

\* The trigger of scheduleDailyReminder(timeHHmm).
ReminderTrigger(timeHHmm) ==
  LET parts == Split(IF timeHHmm = <<>> THEN T1900 ELSE timeHHmm, ":")
      hh == ParseInt(parts[1])
      mm == IF Len(parts) >= 2 THEN ParseInt(parts[2]) ELSE NaN
  IN [hour |-> IF hh # NaN THEN hh ELSE 19, minute |-> IF mm # NaN THEN mm ELSE 0]

\* ------------------------------------------------------------------------
\* State
\* ------------------------------------------------------------------------
VARIABLES
  tz,           \* the host's local time zone
  now,          \* the clock: the instant new Date() returns
  calc,         \* a calculation on drawn inputs: its stage, inputs and results
  settings,     \* store: the user's user_settings row
  completions,  \* store: the user's workout_completions rows, as inserted
  scheduled,    \* per client: the notifications scheduled on the device
  wpc,          \* per client: position of the Workouts screen's complete()
  wl,           \* per client: locals of complete() and awardPoints()
  dpc,          \* per client: position of the Dashboard's load()/saveSettings()
  dl,           \* per client: state of the Dashboard screen
  workouts,     \* store: the ids of the user's workouts rows
  dayScreen,          \* state of the Day details screen
  dloads,       \* the invocations of the Day details load() in flight
  profiles,     \* store: the user's profiles row (src/app/App.js)
  profileScreen, \* state of the Profile screen of src/app/App.js
  timer         \* state of the rest timer modal of src/app/App.js

dayVars == <<workouts, dayScreen, dloads>>
appVars == <<profiles, profileScreen, timer>>
sys == <<settings, completions, scheduled, wpc, wl, dpc, dl, workouts, dayScreen, dloads,
         profiles, profileScreen, timer>>
vars == <<tz, now, calc, settings, completions, scheduled, wpc, wl, dpc, dl,
          workouts, dayScreen, dloads, profiles, profileScreen, timer>>

\* The screens as mounted: useState defaults, the Dashboard's first load() in
\* flight.
DashDefaults ==
  [loading |-> TRUE, points |-> 0, weeklyTarget |-> 3, weeklyDone |-> 0, streak |-> 0,
   totalWorkouts |-> 0, completionsTotal |-> 0, completionsRows |-> <<>>,
   goal |-> "General Fitness", level |-> "Beginner", remindersEnabled |-> FALSE,
   reminderTime |-> T1900, savingSettings |-> FALSE, inSave |-> FALSE,
   payload |-> NoRow, alert |-> "none"]

\* The Day details screen before it is opened: useState defaults.
DayDefaults ==
  [mounted |-> FALSE, ymd |-> <<>>, loading |-> TRUE, rows |-> <<>>, workoutsMap |-> {},
   alert |-> "none"]

\* The Profile screen as mounted: useState("4"), its first load() in flight.
ProfileDefaults == [weeklyTarget |-> <<"4">>, saves |-> {}, loads |-> 1, alert |-> "none"]

\* No profiles row yet.  weekly_target is a JavaScript number that can have a
\* fraction: it is kept in tenths (40 is the number 4, 25 the number 2.5).
NoProfile == [exists |-> FALSE, weekly_target |-> 0]

\* initialSeconds: both call sites pass startTimer(90).
InitialSeconds == 90

\* The rest timer modal as mounted: closed, useState(initialSeconds || 90),
\* useState(false), useRef(null), no interval created yet.
TimerDefaults ==
  [open |-> FALSE, secs |-> InitialSeconds, running |-> FALSE, intervalRef |-> FALSE,
   intervals |-> 0, resetPending |-> FALSE, runPending |-> FALSE, alert |-> "none"]

SysInit ==
  /\ profiles = NoProfile
  /\ profileScreen = ProfileDefaults
  /\ timer = TimerDefaults
  /\ settings = NoRow
  /\ completions = <<>>
  /\ scheduled = [c \in Clients |-> <<>>]
  /\ wpc = [c \in Clients |-> "idle"]
  /\ wl = [c \in Clients |-> [current |-> 0, next |-> 0, readError |-> FALSE,
                             upsertError |-> FALSE, alert |-> "none"]]
  /\ dpc = [c \in Clients |-> IF c \in DashClients THEN "loadSettings" ELSE "unmounted"]
  /\ dl = [c \in Clients |-> DashDefaults]
  /\ workouts = Workouts
  /\ dayScreen = DayDefaults
  /\ dloads = <<>>

\* ------------------------------------------------------------------------
\* Inputs of the calculations
\* ------------------------------------------------------------------------
Anchors == {UtcHour(2023, 12, 31, 22), UtcHour(2024, 2, 29, 12),
            UtcHour(2024, 3, 31, 12), UtcHour(2024, 4, 7, 3),
            UtcHour(2024, 9, 8, 4), UtcHour(2024, 10, 27, 1)}
Instants == UNION {(a - Window)..(a + Window) : a \in Anchors}

NowSet == {UtcHour(2024, 1, 1, 3), UtcHour(2024, 3, 1, 10), UtcHour(2024, 4, 1, 12),
           UtcHour(2024, 4, 2, 9), UtcHour(2024, 6, 15, 20), UtcHour(2024, 4, 8, 12),
           UtcHour(2024, 9, 9, 15)}

\* Completion instants: every twelve hours back from now.
PastInstants(t) == {t - 12 * j : j \in 0..(2 * MaxBack + 1)}

YearStrs == {<<"0", "0", "5", "0">>, <<"0", "9", "9", "9">>, <<"1", "0", "0", "0">>,
             <<"1", "9", "0", "0">>, <<"2", "0", "2", "3">>, <<"2", "0", "2", "4">>,
             <<"9", "9", "9", "9">>}
TwoDigit(n) == PadStart2(NatStr(n))
DigitYMDs == {y \o <<"-">> \o TwoDigit(m) \o <<"-">> \o TwoDigit(d) :
                y \in YearStrs, m \in 0..MaxMonthStr, d \in 0..MaxDayStr}

Y2024 == <<"2", "0", "2", "4">>
OtherYMDs == {<<>>, Y2024, Y2024 \o <<"-">>, Y2024 \o <<"-", "0", "3">>,
              Y2024 \o <<"-", "0", "3", "-">>, Y2024 \o <<"-", "-", "0", "5">>,
              Y2024 \o <<"-", "x", "x", "-", "0", "5">>,
              Y2024 \o <<"-", "0", "3", "-", "x", "x">>,
              Y2024 \o <<"-", "3", "-", "7">>,
              <<"a", "b", "c", "d", "-", "0", "1", "-", "0", "1">>,
              <<"-", "0", "1", "-", "0", "1">>,
              <<"t", "o", "d", "a", "y">>,
              <<" ">> \o Y2024 \o <<"-", "0", "3", "-", "0", "1">>,
              <<"2", "4", "-", "0", "3", "-", "0", "1">>}

\* ------------------------------------------------------------------------
\* Calendar utilities applied to drawn inputs
\* ------------------------------------------------------------------------
InitDate ==
  /\ SysInit
  /\ tz \in Zones
  /\ now = UtcHour(2024, 6, 15, 20)
  /\ \/ \E x \in Instants : calc = [stage |-> "instant", x |-> x]
     \/ \E str \in DigitYMDs \cup OtherYMDs : calc = [stage |-> "string", ymd |-> str]

\* dateToYMD(x)
ApplyDateToYMD ==
  /\ calc.stage = "instant"
  /\ calc' = [stage |-> "ymdOfInstant", x |-> calc.x, ymd |-> dateToYMD(tz, calc.x)]
  /\ UNCHANGED <<tz, now, sys>>

\* ymdToBounds(ymd)
ApplyYmdToBounds ==
  /\ calc.stage \in {"string", "ymdOfInstant"}
  /\ calc' = [calc EXCEPT !.stage = IF calc.stage = "string" THEN "boundsOfString"
                                     ELSE "boundsOfInstant"]
             @@ [bounds |-> ymdToBounds(tz, calc.ymd)]
  /\ UNCHANGED <<tz, now, sys>>

\* dateToYMD(ymdToBounds(ymd).startISO)
ApplyDateToYMDOfStart ==
  /\ calc.stage = "boundsOfString"
  /\ ~calc.bounds.threw
  /\ calc' = [calc EXCEPT !.stage = "ymdOfStart"]
             @@ [back |-> dateToYMD(tz, calc.bounds.startISO)]
  /\ UNCHANGED <<tz, now, sys>>

NextDate == ApplyDateToYMD \/ ApplyYmdToBounds \/ ApplyDateToYMDOfStart

SpecDate == InitDate /\ [][NextDate]_vars

\* ------------------------------------------------------------------------
\* XP model applied to drawn inputs
\* ------------------------------------------------------------------------
InitXp ==
  /\ SysInit
  /\ tz = "London"
  /\ now = UtcHour(2024, 6, 15, 20)
  /\ \E p \in (-20..MaxPoints) \cup {NaN} : calc = [stage |-> "points", points |-> p]

ApplyXpFromPoints ==
  /\ calc.stage = "points"
  /\ calc' = [stage |-> "xp", points |-> calc.points, xp |-> xpFromPoints(calc.points)]
  /\ UNCHANGED <<tz, now, sys>>

NextXp == ApplyXpFromPoints

SpecXp == InitXp /\ [][NextXp]_vars

\* ------------------------------------------------------------------------
\* Streak calculators applied to drawn inputs
\* ------------------------------------------------------------------------
InitStreak ==
  /\ SysInit
  /\ tz \in Zones
  /\ now \in NowSet
  /\ \E rows \in SUBSET PastInstants(now) : calc = [stage |-> "rows", rows |-> rows]

ApplyCalcStreakFromCompletions ==
  /\ calc.stage = "rows"
  /\ calc' = [stage |-> "streak", rows |-> calc.rows,
              streak |-> calcStreakFromCompletions(tz, now, calc.rows)]
  /\ UNCHANGED <<tz, now, sys>>

ApplyComputeStreakFromDays ==
  /\ calc.stage = "rows"
  /\ calc' = [stage |-> "streakDays", rows |-> calc.rows,
              streak |-> computeStreakFromDays(tz, now, {dayKeyISO(tz, r) : r \in calc.rows})]
  /\ UNCHANGED <<tz, now, sys>>

NextStreak == ApplyCalcStreakFromCompletions \/ ApplyComputeStreakFromDays

SpecStreak == InitStreak /\ [][NextStreak]_vars

\* ------------------------------------------------------------------------
\* Workouts screen: complete(workoutId) and awardPoints(add).  Every store
\* call is a suspension point and may fail (ok = FALSE).
\* ------------------------------------------------------------------------
\* The inserted row without the workout chosen.
NewCompletionNoWorkout(rows, w, t) ==
  [id |-> Len(rows) + 1, user_id |-> User, workout_id |-> Null, completed_at |-> t]

\* insert({ user_id: user.id, workout_id: workoutId, completed_at: new Date().toISOString() })
NewCompletion(rows, w, t) ==
  [id |-> Len(rows) + 1, user_id |-> User, workout_id |-> w, completed_at |-> t]

\* .select("id, completed_at, workout_id").eq("user_id", user.id)
IsOwn(r) == r.user_id = User
Columns(r) == [id |-> r.id, workout_id |-> r.workout_id, completed_at |-> r.completed_at]
SelectOwn(rows) ==
  LET own == SelectSeq(rows, IsOwn) IN [i \in 1..Len(own) |-> Columns(own[i])]

\* awardPoints storing the delta alone.
AwardNextDropsCurrent(current, add) == add

\* const next = current + add
AwardNext(current, add) == current + add

\* awardPoints as an atomic increment in the store.
AwardUpsertRowIncrement(row, next, t) ==
  Upsert(row, [points |-> PointsOf(TRUE, row) + AwardDelta, updated_at |-> t])

\* awardPoints replacing the whole row by the columns it gives.
AwardUpsertRowReplace(row, next, t) == Upsert(NoRow, [points |-> next, updated_at |-> t])

\* upsert({ user_id, points: next, updated_at })
AwardUpsertRow(row, next, t) == Upsert(row, [points |-> next, updated_at |-> t])

\* complete: the insert into workout_completions and what follows its reply
Complete(c, w, ok) ==
  /\ wpc[c] = "idle"
  /\ Len(completions) < MaxCompletions
  /\ IF ok
     THEN /\ completions' = Append(completions, NewCompletion(completions, w, now))
          /\ wpc' = [wpc EXCEPT ![c] = "awardRead"]
          /\ wl' = [wl EXCEPT ![c].alert = "none", ![c].readError = FALSE,
                              ![c].upsertError = FALSE]
     ELSE /\ wl' = [wl EXCEPT ![c].alert = "Complete failed", ![c].readError = FALSE,
                              ![c].upsertError = FALSE]
          /\ UNCHANGED <<completions, wpc>>
  /\ UNCHANGED dayVars
  /\ UNCHANGED <<tz, now, calc, settings, scheduled, dpc, dl>>
  /\ UNCHANGED appVars

\* awardPoints: the read of user_settings.points
AwardRead(c, ok) ==
  /\ wpc[c] = "awardRead"
  /\ LET current == PointsOf(ok, settings)
     IN wl' = [wl EXCEPT ![c].readError = ~ok,
                         ![c].current = current,
                         ![c].next = AwardNext(current, AwardDelta)]
  /\ wpc' = [wpc EXCEPT ![c] = "awardUpsert"]
  /\ UNCHANGED dayVars
  /\ UNCHANGED <<tz, now, calc, settings, completions, scheduled, dpc, dl>>
  /\ UNCHANGED appVars

\* awardPoints: the upsert, whose result is not inspected, then the alert
AwardUpsert(c, ok) ==
  /\ wpc[c] = "awardUpsert"
  /\ settings' = IF ok THEN AwardUpsertRow(settings, wl[c].next, now) ELSE settings
  /\ wl' = [wl EXCEPT ![c].upsertError = ~ok, ![c].alert = "Completed +10 points",
                      ![c].current = 0, ![c].next = 0]
  /\ wpc' = [wpc EXCEPT ![c] = "idle"]
  /\ UNCHANGED dayVars
  /\ UNCHANGED <<tz, now, calc, completions, scheduled, dpc, dl>>
  /\ UNCHANGED appVars

\* ------------------------------------------------------------------------
\* Dashboard: load() and saveSettings().  One of the two is in flight per
\* client at a time.
\* ------------------------------------------------------------------------
\* load: setLoading(true) and the read of the profile (not part of the state)
DashLoad(c) ==
  /\ dpc[c] = "idle"
  /\ dl' = [dl EXCEPT ![c].loading = TRUE]
  /\ dpc' = [dpc EXCEPT ![c] = "loadSettings"]
  /\ UNCHANGED dayVars
  /\ UNCHANGED <<tz, now, calc, settings, completions, scheduled, wpc, wl>>
  /\ UNCHANGED appVars

\* The settings the dashboard shows for the row read (null when there is no
\* row or the read failed).
LoadedSettings(ok, row) ==
  LET have == ok /\ row.exists
  IN [goal |-> IF have /\ row.goal # "" THEN row.goal ELSE "General Fitness",
      level |-> IF have /\ row.level # "" THEN row.level ELSE "Beginner",
      weeklyTarget |-> IF have /\ row.weekly_target # NaN THEN row.weekly_target ELSE 3,
      remindersEnabled |-> have /\ row.reminders_enabled,
      reminderTime |-> IF have /\ row.reminder_time # <<>> THEN row.reminder_time ELSE T1900,
      points |-> PointsOf(ok, row)]

DashLoadSettings(c, ok) ==
  /\ dpc[c] = "loadSettings"
  /\ LET v == LoadedSettings(ok, settings)
     IN dl' = [dl EXCEPT ![c].goal = v.goal, ![c].level = v.level,
                         ![c].weeklyTarget = v.weeklyTarget,
                         ![c].remindersEnabled = v.remindersEnabled,
                         ![c].reminderTime = v.reminderTime,
                         ![c].points = v.points]
  /\ dpc' = [dpc EXCEPT ![c] = "loadWorkouts"]
  /\ UNCHANGED dayVars
  /\ UNCHANGED <<tz, now, calc, settings, completions, scheduled, wpc, wl>>
  /\ UNCHANGED appVars

DashLoadWorkouts(c, ok) ==
  /\ dpc[c] = "loadWorkouts"
  /\ dl' = [dl EXCEPT ![c].totalWorkouts = IF ok THEN Cardinality(workouts) ELSE 0]
  /\ dpc' = [dpc EXCEPT ![c] = "loadCompletions"]
  /\ UNCHANGED dayVars
  /\ UNCHANGED <<tz, now, calc, settings, completions, scheduled, wpc, wl>>
  /\ UNCHANGED appVars

\* load: the read of the completions and the derived metrics; when load was
\* called by saveSettings, the end of saveSettings
DashLoadCompletions(c, ok) ==
  /\ dpc[c] = "loadCompletions"
  /\ LET comps == IF ok THEN OrderDesc(SelectOwn(completions)) ELSE <<>>
     IN dl' = [dl EXCEPT ![c].completionsRows = comps,
                         ![c].completionsTotal = Len(comps),
                         ![c].weeklyDone = weekly(tz, now, comps),
                         ![c].streak = calcStreakFromCompletions(tz, now, RowTimes(comps)),
                         ![c].loading = FALSE,
                         ![c].savingSettings = IF dl[c].inSave THEN FALSE ELSE @,
                         ![c].inSave = FALSE,
                         ![c].alert = IF dl[c].inSave THEN "Saved" ELSE dl[c].alert]
  /\ dpc' = [dpc EXCEPT ![c] = "idle"]
  /\ UNCHANGED dayVars
  /\ UNCHANGED <<tz, now, calc, settings, completions, scheduled, wpc, wl>>
  /\ UNCHANGED appVars

\* The row saveSettings upserts, from the screen's state.
SettingsPayload(d, t) ==
  LET wt == ParseInt(NumStr(d.weeklyTarget))
      rt == Trim(IF d.reminderTime = <<>> THEN T1900 ELSE d.reminderTime)
  IN [goal |-> IF d.goal # "" THEN d.goal ELSE "General Fitness",
      level |-> IF d.level # "" THEN d.level ELSE "Beginner",
      weekly_target |-> IF wt # NaN /\ wt > 0 THEN wt ELSE 3,
      reminders_enabled |-> d.remindersEnabled,
      reminder_time |-> IF IsHHMM(rt) THEN rt ELSE T1900,
      points |-> IF d.points # NaN THEN d.points ELSE 0,
      updated_at |-> t]

\* saveSettings: up to the upsert request
SaveSettings(c) ==
  /\ dpc[c] = "idle"
  /\ ~dl[c].savingSettings
  /\ dl' = [dl EXCEPT ![c].savingSettings = TRUE,
                      ![c].payload = Upsert(NoRow, SettingsPayload(dl[c], now)),
                      ![c].alert = "none"]
  /\ dpc' = [dpc EXCEPT ![c] = "saveUpsert"]
  /\ UNCHANGED dayVars
  /\ UNCHANGED <<tz, now, calc, settings, completions, scheduled, wpc, wl>>
  /\ UNCHANGED appVars

\* saveSettings: the upsert of the whole row
SaveUpsert(c, ok) ==
  /\ dpc[c] = "saveUpsert"
  /\ IF ok
     THEN /\ settings' = dl[c].payload
          /\ dpc' = [dpc EXCEPT ![c] = "saveNotify"]
          /\ UNCHANGED dl
     ELSE /\ dl' = [dl EXCEPT ![c].alert = "Save failed", ![c].savingSettings = FALSE,
                              ![c].payload = NoRow]
          /\ dpc' = [dpc EXCEPT ![c] = "idle"]
          /\ UNCHANGED settings
  /\ UNCHANGED dayVars
  /\ UNCHANGED <<tz, now, calc, completions, scheduled, wpc, wl>>
  /\ UNCHANGED appVars

\* Notifications.cancelAllScheduledNotificationsAsync()
cancelAllScheduledNotifications(sched) == <<>>

\* scheduleDailyReminder scheduling on top of what is scheduled already.
scheduleDailyReminderNoCancel(sched, granted, timeHHmm) ==
  IF granted THEN Append(sched, ReminderTrigger(timeHHmm)) ELSE sched

\* scheduleDailyReminder(timeHHmm): cancel all, return when the permission is
\* not granted, schedule one repeating trigger.
scheduleDailyReminder(sched, granted, timeHHmm) ==
  LET cleared == cancelAllScheduledNotifications(sched)
  IN IF granted THEN Append(cleared, ReminderTrigger(timeHHmm)) ELSE cleared

\* saveSettings: scheduleDailyReminder or cancelAll, then the call of load()
SaveNotify(c, granted) ==
  /\ dpc[c] = "saveNotify"
  /\ scheduled' = [scheduled EXCEPT ![c] =
       IF dl[c].payload.reminders_enabled
       THEN scheduleDailyReminder(scheduled[c], granted, dl[c].payload.reminder_time)
       ELSE cancelAllScheduledNotifications(scheduled[c])]
  /\ dl' = [dl EXCEPT ![c].loading = TRUE, ![c].inSave = TRUE, ![c].payload = NoRow]
  /\ dpc' = [dpc EXCEPT ![c] = "loadSettings"]
  /\ UNCHANGED dayVars
  /\ UNCHANGED <<tz, now, calc, settings, completions, wpc, wl>>
  /\ UNCHANGED appVars

\* saveSettings: a call of the notifications module rejects.  Nothing catches
\* it: saveSettings ends there, before load() and setSavingSettings(false).
\* The rejected call may have come after the cancelling.
SaveNotifyThrows(c) ==
  /\ dpc[c] = "saveNotify"
  /\ \E sched \in {scheduled[c], cancelAllScheduledNotifications(scheduled[c])} :
       scheduled' = [scheduled EXCEPT ![c] = sched]
  /\ dl' = [dl EXCEPT ![c].payload = NoRow]
  /\ dpc' = [dpc EXCEPT ![c] = "idle"]
  /\ UNCHANGED dayVars
  /\ UNCHANGED <<tz, now, calc, settings, completions, wpc, wl>>
  /\ UNCHANGED appVars

\* ------------------------------------------------------------------------
\* Day details screen: load() for the day of the route, and the store
\* changes it can meet.  Several invocations of load() can be in flight.
\* ------------------------------------------------------------------------
RemoveAt(seq, i) == SubSeq(seq, 1, i - 1) \o SubSeq(seq, i + 1, Len(seq))

\* .eq("user_id", user.id).gte("completed_at", startISO)
\* .lt("completed_at", endISO).order("completed_at", { ascending: false })
DayQuery(rows, startISO, endISO) ==
  LET own == SelectOwn(rows)
      hit(r) == startISO <= r.completed_at /\ r.completed_at < endISO
  IN OrderDesc(SelectSeq(own, hit))

\* [...new Set(list.map((x) => x.workout_id).filter(Boolean))]
IdsOf(list) == {list[i].workout_id : i \in 1..Len(list)} \ {Null}

\* The map built from the workouts rows found: all of them, fetched or not.
WorkoutsMapOfAll(ok, ids, ws) == {[id |-> w, name |-> WorkoutName(w)] : w \in ids}

\* (ws || []).forEach((w) => (map[w.id] = w)), ws the rows with id in ids
WorkoutsMapOf(ok, ids, ws) ==
  {[id |-> w, name |-> WorkoutName(w)] : w \in IF ok THEN ws \cap ids ELSE {}}

\* The title of a row: w?.name || "Workout"
Placeholder == <<"W", "o", "r", "k", "o", "u", "t">>
TitleOf(map, r) ==
  IF \E w \in map : w.id = r.workout_id
  THEN (CHOOSE w \in map : w.id = r.workout_id).name
  ELSE Placeholder

\* What the screen renders: nothing but a spinner while loading.
DayShown(d) ==
  IF d.loading THEN <<>>
  ELSE [i \in 1..Len(d.rows) |->
          [id |-> d.rows[i].id, title |-> TitleOf(d.workoutsMap, d.rows[i])]]

\* load: setLoading(true), ymdToBounds(ymd) and the request for the
\* completions; a throw of ymdToBounds ends load with loading still true.
StartLoad(d, ymd) ==
  LET b == ymdToBounds(tz, ymd)
  IN IF b.threw THEN dloads
     ELSE Append(dloads, [ymd |-> ymd, stage |-> "completions", startISO |-> b.startISO,
                          endISO |-> b.endISO, ids |-> {}])

\* navigation.navigate("DayDetails", { ymd }): the screen mounts, or takes
\* the new route parameter, and the effect on [ymd] calls load()
OpenDay(ymd) ==
  /\ ~dayScreen.mounted \/ dayScreen.ymd # ymd
  /\ Len(dloads) < MaxLoads
  /\ dayScreen' = IF dayScreen.mounted THEN [dayScreen EXCEPT !.ymd = ymd, !.loading = TRUE]
            ELSE [DayDefaults EXCEPT !.mounted = TRUE, !.ymd = ymd]
  /\ dloads' = StartLoad(dayScreen, ymd)
  /\ UNCHANGED <<tz, now, calc, settings, completions, scheduled, wpc, wl, dpc, dl, workouts>>
  /\ UNCHANGED appVars

\* The refresh button: onPress={load}
DayRefresh ==
  /\ dayScreen.mounted
  /\ Len(dloads) < MaxLoads
  /\ dayScreen' = [dayScreen EXCEPT !.loading = TRUE]
  /\ dloads' = StartLoad(dayScreen, dayScreen.ymd)
  /\ UNCHANGED <<tz, now, calc, settings, completions, scheduled, wpc, wl, dpc, dl, workouts>>
  /\ UNCHANGED appVars

\* load: the reply to the query of the completions
DayLoadCompletions(i, ok) ==
  /\ i \in 1..Len(dloads)
  /\ dloads[i].stage = "completions"
  /\ IF ~ok
     THEN /\ dayScreen' = [dayScreen EXCEPT !.loading = FALSE, !.alert = "Load failed"]
          /\ dloads' = RemoveAt(dloads, i)
     ELSE LET list == DayQuery(completions, dloads[i].startISO, dloads[i].endISO)
              ids  == IdsOf(list)
          IN IF ids # {}
             THEN /\ dayScreen' = [dayScreen EXCEPT !.rows = list]
                  /\ dloads' = [dloads EXCEPT ![i].stage = "workouts", ![i].ids = ids]
             ELSE /\ dayScreen' = [dayScreen EXCEPT !.rows = list, !.workoutsMap = {},
                                        !.loading = FALSE]
                  /\ dloads' = RemoveAt(dloads, i)
  /\ UNCHANGED <<tz, now, calc, settings, completions, scheduled, wpc, wl, dpc, dl, workouts>>
  /\ UNCHANGED appVars

\* load: the reply to the query of the workouts, whose error is not read
DayLoadWorkouts(i, ok) ==
  /\ i \in 1..Len(dloads)
  /\ dloads[i].stage = "workouts"
  /\ dayScreen' = [dayScreen EXCEPT !.workoutsMap = WorkoutsMapOf(ok, dloads[i].ids, workouts),
                        !.loading = FALSE]
  /\ dloads' = RemoveAt(dloads, i)
  /\ UNCHANGED <<tz, now, calc, settings, completions, scheduled, wpc, wl, dpc, dl, workouts>>
  /\ UNCHANGED appVars

\* Workouts screen, del(id): the delete of a workouts row.  What the store
\* does with the completions that refer to it is set by the schema: it keeps
\* them, nulls their workout_id, or deletes them.
DeleteWorkout(w, fk) ==
  /\ w \in workouts
  /\ workouts' = workouts \ {w}
  /\ completions' =
       CASE fk = "keep" -> completions
         [] fk = "set null" ->
              [i \in 1..Len(completions) |->
                 IF completions[i].workout_id = w
                 THEN [completions[i] EXCEPT !.workout_id = Null] ELSE completions[i]]
         [] fk = "cascade" -> SelectSeq(completions, LAMBDA r : r.workout_id # w)
  /\ UNCHANGED <<tz, now, calc, settings, scheduled, wpc, wl, dpc, dl, dayScreen, dloads>>
  /\ UNCHANGED appVars

\* The clocks and zones of the day drill-down, and the completions the
\* store holds when the screen is opened.
DayClocks == {<<"Santiago", UtcHour(2024, 9, 9, 15)>>, <<"London", UtcHour(2024, 4, 1, 12)>>,
              <<"Athens", UtcHour(2024, 1, 1, 3)>>, <<"NewYork", UtcHour(2024, 3, 1, 10)>>}

Yesterday(z, t) == dateToYMD(z, SetDate(z, t, GetDate(z, t) - 1))
DayYMDs(z, t) == {dateToYMD(z, t), Yesterday(z, t)}

HistoryRows(z, t) ==
  LET b == ymdToBounds(z, Yesterday(z, t))
  IN {[user_id |-> User, workout_id |-> "w1", completed_at |-> x] :
        x \in {b.startISO - 1, b.startISO, b.endISO - 1, b.endISO}}
     \cup {[user_id |-> User, workout_id |-> Null, completed_at |-> b.startISO],
           [user_id |-> OtherUser, workout_id |-> "w1", completed_at |-> b.startISO]}

\* Rows in the order of their insertion, ids in that order.
Histories(z, t) ==
  {[i \in DOMAIN f |-> f[i] @@ [id |-> i]] :
     f \in {g \in UNION {[1..k -> HistoryRows(z, t)] : k \in 0..MaxHistory} :
              \A i, j \in DOMAIN g : i < j => g[i].completed_at <= g[j].completed_at}}

InitDay ==
  /\ \E zt \in DayClocks : tz = zt[1] /\ now = zt[2]
  /\ calc = [stage |-> "none"]
  /\ settings = NoRow
  /\ completions \in Histories(tz, now)
  /\ scheduled = [c \in Clients |-> <<>>]
  /\ wpc = [c \in Clients |-> "idle"]
  /\ wl = [c \in Clients |-> [current |-> 0, next |-> 0, readError |-> FALSE,
                             upsertError |-> FALSE, alert |-> "none"]]
  /\ dpc = [c \in Clients |-> "idle"]
  /\ dl = [c \in Clients |-> DashDefaults]
  /\ profiles = NoProfile
  /\ profileScreen = ProfileDefaults
  /\ timer = TimerDefaults
  /\ workouts = Workouts
  /\ dayScreen = DayDefaults
  /\ dloads = <<>>

NextDay ==
  \/ \E ymd \in DayYMDs(tz, now) : OpenDay(ymd)
  \/ DayRefresh
  \/ \E i \in 1..MaxLoads, ok \in BOOLEAN : DayLoadCompletions(i, ok)
  \/ \E i \in 1..MaxLoads, ok \in BOOLEAN : DayLoadWorkouts(i, ok)
  \/ \E w \in Workouts, fk \in {"keep", "set null", "cascade"} : DeleteWorkout(w, fk)

SpecDay == InitDay /\ [][NextDay]_vars

Init ==
  /\ tz = "London"
  /\ now = UtcHour(2024, 4, 1, 12)
  /\ calc = [stage |-> "none"]
  /\ SysInit

Next ==
  \E c \in Clients :
    \/ \E w \in Workouts, ok \in BOOLEAN : Complete(c, w, ok)
    \/ \E ok \in BOOLEAN : AwardRead(c, ok)
    \/ \E ok \in BOOLEAN : AwardUpsert(c, ok)
    \/ DashLoad(c)
    \/ \E ok \in BOOLEAN : DashLoadSettings(c, ok)
    \/ \E ok \in BOOLEAN : DashLoadWorkouts(c, ok)
    \/ \E ok \in BOOLEAN : DashLoadCompletions(c, ok)
    \/ SaveSettings(c)
    \/ \E ok \in BOOLEAN : SaveUpsert(c, ok)
    \/ \E granted \in BOOLEAN : SaveNotify(c, granted)
    \/ SaveNotifyThrows(c)

Spec == Init /\ [][Next]_vars

\* ------------------------------------------------------------------------
\* Dashboard settings form: the user's edits, saveSettings() and load()
\* ------------------------------------------------------------------------
\* What the user types into the reminder time field.
ReminderInputs ==
  {T1900, <<"0", "7", ":", "3", "0">>, <<" ", "0", "8", ":", "1", "5", " ">>,
   <<"2", "5", ":", "6", "1">>, <<"7", ":", "3", "0">>, <<"s", "o", "o", "n">>, <<>>}

\* <TextInput value={reminderTime} onChangeText={setReminderTime} />
EditReminderTime(c, str) ==
  /\ dpc[c] # "unmounted"
  /\ dl[c].reminderTime # str
  /\ dl' = [dl EXCEPT ![c].reminderTime = str]
  /\ UNCHANGED dayVars
  /\ UNCHANGED <<tz, now, calc, settings, completions, scheduled, wpc, wl, dpc>>
  /\ UNCHANGED appVars

\* onPress={() => setRemindersEnabled((x) => !x)}
ToggleReminders(c) ==
  /\ dpc[c] # "unmounted"
  /\ dl' = [dl EXCEPT ![c].remindersEnabled = ~@]
  /\ UNCHANGED dayVars
  /\ UNCHANGED <<tz, now, calc, settings, completions, scheduled, wpc, wl, dpc>>
  /\ UNCHANGED appVars

NextSettings ==
  \E c \in DashClients :
    \/ \E str \in ReminderInputs : EditReminderTime(c, str)
    \/ ToggleReminders(c)
    \/ DashLoad(c)
    \/ \E ok \in BOOLEAN : DashLoadSettings(c, ok)
    \/ \E ok \in BOOLEAN : DashLoadWorkouts(c, ok)
    \/ \E ok \in BOOLEAN : DashLoadCompletions(c, ok)
    \/ SaveSettings(c)
    \/ \E ok \in BOOLEAN : SaveUpsert(c, ok)
    \/ \E granted \in BOOLEAN : SaveNotify(c, granted)
    \/ SaveNotifyThrows(c)

SpecSettings == Init /\ [][NextSettings]_vars

\* Every request made and every call awaited returns: the continuations of
\* load() and saveSettings() are taken once they are enabled.  The user's
\* presses and edits are not forced.
FairSettings ==
  \A c \in DashClients :
    /\ WF_vars(\E ok \in BOOLEAN : DashLoadSettings(c, ok))
    /\ WF_vars(\E ok \in BOOLEAN : DashLoadWorkouts(c, ok))
    /\ WF_vars(\E ok \in BOOLEAN : DashLoadCompletions(c, ok))
    /\ WF_vars(\E ok \in BOOLEAN : SaveUpsert(c, ok))
    /\ WF_vars((\E granted \in BOOLEAN : SaveNotify(c, granted)) \/ SaveNotifyThrows(c))

SpecSettingsFair == Init /\ [][NextSettings]_vars /\ FairSettings

\* ------------------------------------------------------------------------
\* Weekly target: the Dashboard's field and saveSettings(), and the Profile
\* screen of src/app/App.js with its save()
\* ------------------------------------------------------------------------
\* Requests of one kind the Profile screen has in flight at a time.
MaxRequests == 1

\* What the user types or pastes into a weekly target field.
TargetInputs ==
  {<<"5">>, <<>>, <<"0">>, <<"2", ".", "5">>, <<"-", "3">>, <<"a", "b", "c">>, <<"1", "5">>}

\* t.replace(/[^\d]/g, "")
OnlyDigits(str) == SelectSeq(str, IsDigit)

\* onChangeText={(t) => setWeeklyTarget(t.replace(/[^\d]/g, ""))}
\* The state is read only through String(weeklyTarget): the field keeps the
\* number the filtered text reads as, NaN for the empty text.
EditWeeklyTarget(c, text) ==
  /\ dpc[c] # "unmounted"
  /\ dl[c].weeklyTarget # ParseInt(OnlyDigits(text))
  /\ dl' = [dl EXCEPT ![c].weeklyTarget = ParseInt(OnlyDigits(text))]
  /\ UNCHANGED dayVars
  /\ UNCHANGED <<tz, now, calc, settings, completions, scheduled, wpc, wl, dpc>>
  /\ UNCHANGED appVars

\* The tenths a run of digits after the decimal point stands for (texts with
\* at most one decimal).
FractionTenths(str) == IF str = <<>> THEN 0 ELSE DigitVal(Head(str))

\* Number(str), in tenths: blanks are trimmed, the empty text is 0, a text
\* that is not a decimal literal as a whole is NaN.
NumberTenths(str) ==
  LET t     == Trim(str)
      neg   == t # <<>> /\ Head(t) = "-"
      body  == IF t # <<>> /\ Head(t) \in {"-", "+"} THEN Tail(t) ELSE t
      parts == Split(body, ".")
      int   == parts[1]
      frac  == IF Len(parts) = 2 THEN parts[2] ELSE <<>>
      wellFormed ==
        /\ Len(parts) <= 2
        /\ \A i \in 1..Len(int) : IsDigit(int[i])
        /\ \A i \in 1..Len(frac) : IsDigit(frac[i])
        /\ Len(frac) <= 1
        /\ int # <<>> \/ frac # <<>>
      mag   == ReadDigits(int, 0) * 10 + FractionTenths(frac)
  IN IF t = <<>> THEN 0
     ELSE IF ~wellFormed THEN NaN
     ELSE IF neg THEN 0 - mag ELSE mag

\* String(x) for a number in tenths.
TenthsStr(x) ==
  IF x % 10 = 0 THEN NatStr(x \div 10)
  ELSE NatStr(x \div 10) \o <<".">> \o <<Digits[(x % 10) + 1]>>

\* Number.isFinite(wt) && wt > 0 && wt <= 14 ? wt : 4
cleanWT(weeklyTarget) ==
  LET wt == NumberTenths(weeklyTarget)
  IN IF wt # NaN /\ wt > 0 /\ wt <= 140 THEN wt ELSE 40

\* <TextInput value={weeklyTarget} onChangeText={setWeeklyTarget} />
ProfileEdit(text) ==
  /\ profileScreen.weeklyTarget # text
  /\ profileScreen' = [profileScreen EXCEPT !.weeklyTarget = text]
  /\ UNCHANGED <<tz, now, calc, settings, completions, scheduled, wpc, wl, dpc, dl>>
  /\ UNCHANGED dayVars
  /\ UNCHANGED <<profiles, timer>>

\* save: up to the upsert request.  The button is never disabled: several
\* requests can be in flight.
ProfileSave ==
  /\ Cardinality(profileScreen.saves) < MaxRequests
  /\ profileScreen' = [profileScreen EXCEPT
       !.saves = @ \cup {cleanWT(profileScreen.weeklyTarget)}, !.alert = "none"]
  /\ UNCHANGED <<tz, now, calc, settings, completions, scheduled, wpc, wl, dpc, dl>>
  /\ UNCHANGED dayVars
  /\ UNCHANGED <<profiles, timer>>

\* save: the upsert of the profiles row returns; load() is called, not awaited
ProfileSaveUpsert(v, ok) ==
  /\ v \in profileScreen.saves
  /\ IF ok
     THEN /\ profileScreen.loads < MaxRequests
          /\ profiles' = [exists |-> TRUE, weekly_target |-> v]
          /\ profileScreen' = [profileScreen EXCEPT !.saves = @ \ {v}, !.alert = "Saved",
                                                    !.loads = @ + 1]
     ELSE /\ profileScreen' = [profileScreen EXCEPT !.saves = @ \ {v},
                                                    !.alert = "Save failed"]
          /\ UNCHANGED profiles
  /\ UNCHANGED <<tz, now, calc, settings, completions, scheduled, wpc, wl, dpc, dl>>
  /\ UNCHANGED dayVars
  /\ UNCHANGED timer

\* load: the read of the profiles row returns:
\* setWeeklyTarget(String(prof?.weekly_target ?? 4))
ProfileLoad(ok) ==
  /\ profileScreen.loads > 0
  /\ profileScreen' = [profileScreen EXCEPT
       !.weeklyTarget = IF ok /\ profiles.exists THEN TenthsStr(profiles.weekly_target)
                        ELSE <<"4">>,
       !.loads = @ - 1]
  /\ UNCHANGED <<tz, now, calc, settings, completions, scheduled, wpc, wl, dpc, dl>>
  /\ UNCHANGED dayVars
  /\ UNCHANGED <<profiles, timer>>

NextTarget ==
  \/ \E c \in DashClients :
       \/ \E text \in TargetInputs : EditWeeklyTarget(c, text)
       \/ DashLoad(c)
       \/ \E ok \in BOOLEAN : DashLoadSettings(c, ok)
       \/ \E ok \in BOOLEAN : DashLoadWorkouts(c, ok)
       \/ \E ok \in BOOLEAN : DashLoadCompletions(c, ok)
       \/ SaveSettings(c)
       \/ \E ok \in BOOLEAN : SaveUpsert(c, ok)
       \/ \E granted \in BOOLEAN : SaveNotify(c, granted)
       \/ SaveNotifyThrows(c)
    \/ SaveNotifyThrows(c)
  \/ \E text \in TargetInputs : ProfileEdit(text)
  \/ ProfileSave
  \/ \E v \in profileScreen.saves, ok \in BOOLEAN : ProfileSaveUpsert(v, ok)
  \/ \E ok \in BOOLEAN : ProfileLoad(ok)

SpecTarget == Init /\ [][NextTarget]_vars

\* ------------------------------------------------------------------------
\* Week start and weekly count applied to drawn inputs
\* ------------------------------------------------------------------------
\* Completion instants around the week's start.
WeekInstants(z, t) == PastInstants(t) \cup {startOfWeek(z, t), startOfWeek(z, t) - 1}

\* Completion rows as a query ordered by completed_at descending returns
\* them: at most n rows with instants from S.
RowsOf(f) == [i \in DOMAIN f |-> [id |-> i, workout_id |-> "w1", completed_at |-> f[i]]]
FetchedRows(S, n) ==
  {RowsOf(f) : f \in {g \in UNION {[1..k -> S] : k \in 0..n} :
                        \A i, j \in DOMAIN g : i < j => g[i] >= g[j]}}

InitWeek ==
  /\ SysInit
  /\ tz \in Zones
  /\ \/ now \in Instants \cup NowSet /\ calc = [stage |-> "clock"]
     \/ /\ now \in NowSet
        /\ \E rows \in FetchedRows(WeekInstants(tz, now), MaxCompletions) :
             calc = [stage |-> "rows", rows |-> rows]

\* startOfWeek(new Date())
ApplyStartOfWeek ==
  /\ calc.stage = "clock"
  /\ calc' = [stage |-> "sow", sow |-> startOfWeek(tz, now)]
  /\ UNCHANGED <<tz, now, sys>>

\* startOfWeekISO(new Date())
ApplyStartOfWeekISO ==
  /\ calc.stage = "clock"
  /\ calc' = [stage |-> "sowISO", sow |-> startOfWeekISO(tz, now)]
  /\ UNCHANGED <<tz, now, sys>>

\* load of the dashboard: the weekly count of the rows fetched
ApplyWeekly ==
  /\ \/ calc.stage = "rows"
     \/ calc.stage = "rowsAfter" /\ calc.by = "weekly"
  /\ calc' = [calc EXCEPT !.stage = IF calc.stage = "rows" THEN "weekly" ELSE "weeklyAfter"]
             @@ [by |-> "weekly", done |-> weekly(tz, now, calc.rows)]
  /\ UNCHANGED <<tz, now, sys>>

\* load of the dashboard of src/app/App.js
ApplyWeekCount ==
  /\ \/ calc.stage = "rows"
     \/ calc.stage = "rowsAfter" /\ calc.by = "weekCount"
  /\ calc' = [calc EXCEPT !.stage = IF calc.stage = "rows" THEN "weekly" ELSE "weeklyAfter"]
             @@ [by |-> "weekCount", done |-> weekCount(tz, now, calc.rows)]
  /\ UNCHANGED <<tz, now, sys>>

\* One more completion in the store, then the rows a new load fetches.
AddCompletion(t) ==
  /\ calc.stage = "weekly"
  /\ calc' = [stage |-> "rowsAfter", by |-> calc.by, before |-> calc.done, added |-> t,
              rows |-> OrderDesc(Append(calc.rows, Columns(NewCompletion(calc.rows, "w1", t))))]
  /\ UNCHANGED <<tz, now, sys>>

NextWeek ==
  \/ ApplyStartOfWeek
  \/ ApplyStartOfWeekISO
  \/ ApplyWeekly
  \/ ApplyWeekCount
  \/ \E t \in WeekInstants(tz, now) : AddCompletion(t)

SpecWeek == InitWeek /\ [][NextWeek]_vars

\* ------------------------------------------------------------------------
\* Rest timer modal of src/app/App.js: presses, the effects and the ticks of
\* the interval.  React runs the pending effects before it renders the next
\* update, so a press meets no pending effect; a tick of a live interval can
\* come before them.
\* ------------------------------------------------------------------------
\* 60 * 30
SecsCap == 60 * 30

Presets == {60, 90, 120}

Min(a, b) == IF a < b THEN a ELSE b
Max(a, b) == IF a > b THEN a ELSE b

EffectsPending == timer.resetPending \/ timer.runPending

TimerFrame ==
  /\ UNCHANGED <<tz, now, calc, settings, completions, scheduled, wpc, wl, dpc, dl>>
  /\ UNCHANGED dayVars
  /\ UNCHANGED <<profiles, profileScreen>>

\* startTimer(90): setTimerSecs(secs); setTimerOpen(true)
TimerOpen ==
  /\ ~timer.open /\ ~EffectsPending
  /\ timer' = [timer EXCEPT !.open = TRUE, !.resetPending = TRUE, !.runPending = TRUE]
  /\ TimerFrame

\* onClose={() => setTimerOpen(false)}
TimerClose ==
  /\ timer.open /\ ~EffectsPending
  /\ timer' = [timer EXCEPT !.open = FALSE, !.resetPending = TRUE, !.runPending = TRUE]
  /\ TimerFrame

\* The effects whose dependencies changed: their cleanups (clearInterval of
\* the interval in intervalRef), then the effect on [open, initialSeconds]
\* (setSecs, setRunning(false)), then the effect on [running, open] with the
\* running of this render (setInterval, or clearInterval).
TimerEffects ==
  /\ EffectsPending
  /\ LET live    == IF timer.intervalRef THEN timer.intervals - 1 ELSE timer.intervals
         reset   == timer.resetPending /\ timer.open
         start   == timer.runPending /\ timer.open /\ timer.running
     IN timer' = [timer EXCEPT
          !.intervalRef = start,
          !.intervals = IF start THEN live + 1 ELSE live,
          !.secs = IF reset THEN InitialSeconds ELSE @,
          !.running = IF reset THEN FALSE ELSE @,
          !.resetPending = FALSE,
          !.runPending = reset /\ timer.running]
  /\ TimerFrame

\* onPress={() => setRunning((r) => !r)}
TimerToggle ==
  /\ timer.open /\ ~EffectsPending
  /\ timer' = [timer EXCEPT !.running = ~@, !.runPending = TRUE]
  /\ TimerFrame

\* onPress={() => setSecs((s) => Math.max(0, s - 10))}
TimerMinus10 ==
  /\ timer.open /\ ~EffectsPending
  /\ timer' = [timer EXCEPT !.secs = Max(0, @ - 10)]
  /\ TimerFrame

\* onPress={() => setSecs((s) => Math.min(60 * 30, s + 10))}
TimerPlus10 ==
  /\ timer.open /\ ~EffectsPending
  /\ timer' = [timer EXCEPT !.secs = Min(SecsCap, @ + 10)]
  /\ TimerFrame

\* setPreset(v): setRunning(false); setSecs(v)
setPreset(v) ==
  /\ timer.open /\ ~EffectsPending
  /\ timer' = [timer EXCEPT !.running = FALSE, !.secs = v, !.runPending = timer.running]
  /\ TimerFrame

\* Reset: setRunning(false); setSecs(initialSeconds || 90)
TimerReset ==
  /\ timer.open /\ ~EffectsPending
  /\ timer' = [timer EXCEPT !.running = FALSE, !.secs = InitialSeconds,
                            !.runPending = timer.running]
  /\ TimerFrame

\* The updater of a tick that always counts down.
TickSecsNoFloor(s) == s - 1

\* The value the updater of a tick returns: if (s <= 1) ... return 0; return s - 1
TickSecs(s) == IF s <= 1 THEN 0 ELSE s - 1

\* A tick of a live interval: setSecs((s) => ...); at s <= 1 the updater
\* clears the interval in intervalRef, calls setRunning(false) and alerts.
TimerTick ==
  /\ timer.intervals > 0
  /\ IF timer.secs <= 1
     THEN timer' = [timer EXCEPT
            !.secs = TickSecs(timer.secs),
            !.intervals = IF timer.intervalRef THEN @ - 1 ELSE @,
            !.intervalRef = FALSE,
            !.running = FALSE,
            !.runPending = @ \/ timer.running,
            !.alert = "Rest done"]
     ELSE timer' = [timer EXCEPT !.secs = TickSecs(timer.secs)]
  /\ TimerFrame

NextTimer ==
  \/ TimerOpen
  \/ TimerClose
  \/ TimerEffects
  \/ TimerToggle
  \/ TimerMinus10
  \/ TimerPlus10
  \/ TimerReset
  \/ \E v \in Presets : setPreset(v)
  \/ TimerTick

SpecTimer == Init /\ [][NextTimer]_vars

\* ------------------------------------------------------------------------
\* Dashboard timeline (useMemo over completionsRows) applied to drawn inputs
\* ------------------------------------------------------------------------
\* for (let i = 13; i >= 0; i--)
TimelineDays == 14

\* map[k] = (map[k] || 0) + 1 over the rows, k = dateToYMD(r.completed_at)
TimelineMap(z, completionsRows, ymd) ==
  Cardinality({i \in 1..Len(completionsRows) :
                 dateToYMD(z, completionsRows[i].completed_at) = ymd})

\* The timeline starting one day late: thirteen buckets.
timelineThirteen(z, t, completionsRows) ==
  [j \in 1..(TimelineDays - 1) |->
     LET d   == SetDate(z, t, GetDate(z, t) - (TimelineDays - 1 - j))
         ymd == dateToYMD(z, d)
     IN [ymd |-> ymd, count |-> TimelineMap(z, completionsRows, ymd),
         isToday |-> ymd = dateToYMD(z, t)]]

\* The timeline keyed by the UTC date of the completions.
timelineUtcKeys(z, t, completionsRows) ==
  [j \in 1..TimelineDays |->
     LET d   == SetDate(z, t, GetDate(z, t) - (TimelineDays - j))
         ymd == dateToYMD(z, d)
     IN [ymd |-> ymd,
         count |-> Cardinality({i \in 1..Len(completionsRows) :
                                  YmdOfCivil(IsoDate(completionsRows[i].completed_at)) = ymd}),
         isToday |-> ymd = dateToYMD(z, t)]]

\* The buckets, oldest first; label and dow (display strings of the same
\* date d) are left out.
timeline(z, t, completionsRows) ==
  [j \in 1..TimelineDays |->
     LET d   == SetDate(z, t, GetDate(z, t) - (TimelineDays - j))
         ymd == dateToYMD(z, d)
     IN [ymd |-> ymd, count |-> TimelineMap(z, completionsRows, ymd),
         isToday |-> ymd = dateToYMD(z, t)]]

\* Completion instants inside, at the edges of and outside the window.
WindowStart(z, t) == SetHoursZero(z, SetDate(z, t, GetDate(z, t) - (TimelineDays - 1)))
TimelineInstants(z, t) ==
  {t, t - 5, t - HoursPerDay, t - 6 * HoursPerDay, WindowStart(z, t) + 1, WindowStart(z, t),
   WindowStart(z, t) - 1, t - 20 * HoursPerDay}

\* The clocks of NowSet and two in the first hour of a local day (Santiago,
\* London) whose window holds a day on which the clocks change.
TimelineNows == NowSet \cup {UtcHour(2024, 9, 15, 3), UtcHour(2024, 4, 9, 23)}

InitTimeline ==
  /\ SysInit
  /\ tz \in Zones
  /\ now \in TimelineNows
  /\ \E rows \in FetchedRows(TimelineInstants(tz, now), MaxCompletions) :
       calc = [stage |-> "rows", rows |-> rows]

ApplyTimeline ==
  /\ calc.stage = "rows"
  /\ calc' = [stage |-> "timeline", rows |-> calc.rows,
              timeline |-> timeline(tz, now, calc.rows)]
  /\ UNCHANGED <<tz, now, sys>>

\* The rows fetched by the dashboard, as the store holds them.
StoredRows(rows) == [i \in 1..Len(rows) |-> rows[i] @@ [user_id |-> User]]

\* openDay(item.ymd) on bucket j, and the rows the Day details load() gets
\* for it from the same completions.
ApplyOpenDay(j) ==
  /\ calc.stage = "timeline"
  /\ LET ymd == calc.timeline[j].ymd
         b   == ymdToBounds(tz, ymd)
     IN calc' = [stage |-> "dayRows", rows |-> calc.rows, timeline |-> calc.timeline,
                 bucket |-> j,
                 dayRows |-> IF b.threw THEN <<>>
                             ELSE DayQuery(StoredRows(calc.rows), b.startISO, b.endISO)]
  /\ UNCHANGED <<tz, now, sys>>

NextTimeline == ApplyTimeline \/ \E j \in 1..TimelineDays : ApplyOpenDay(j)

SpecTimeline == InitTimeline /\ [][NextTimeline]_vars

\* ------------------------------------------------------------------------
\* Achievements (useMemo over the dashboard's counters; computeAchievements
\* in src/app/App.js) applied to drawn counters
\* ------------------------------------------------------------------------
\* The achievements with "Streak Starter" unlocked by a streak of exactly 3.
achievementsExactStreak(totalWorkouts, completionsTotal, streak, points) ==
  << [key |-> "first_workout", title |-> "First Workout", ok |-> totalWorkouts >= 1],
     [key |-> "five_workouts", title |-> "5 Workouts", ok |-> totalWorkouts >= 5],
     [key |-> "first_completion", title |-> "First Completion", ok |-> completionsTotal >= 1],
     [key |-> "ten_completions", title |-> "10 Completions", ok |-> completionsTotal >= 10],
     [key |-> "streak3", title |-> "Streak Starter", ok |-> streak = 3],
     [key |-> "streak7", title |-> "Streak Master", ok |-> streak >= 7],
     [key |-> "points100", title |-> "Point Collector", ok |-> points >= 100] >>

\* The achievements with "Point Collector" asking for a completion as well.
achievementsPointsNeedCompletion(totalWorkouts, completionsTotal, streak, points) ==
  << [key |-> "first_workout", title |-> "First Workout", ok |-> totalWorkouts >= 1],
     [key |-> "five_workouts", title |-> "5 Workouts", ok |-> totalWorkouts >= 5],
     [key |-> "first_completion", title |-> "First Completion", ok |-> completionsTotal >= 1],
     [key |-> "ten_completions", title |-> "10 Completions", ok |-> completionsTotal >= 10],
     [key |-> "streak3", title |-> "Streak Starter", ok |-> streak >= 3],
     [key |-> "streak7", title |-> "Streak Master", ok |-> streak >= 7],
     [key |-> "points100", title |-> "Point Collector",
      ok |-> points >= 100 /\ completionsTotal >= 1] >>

achievements(totalWorkouts, completionsTotal, streak, points) ==
  << [key |-> "first_workout", title |-> "First Workout", ok |-> totalWorkouts >= 1],
     [key |-> "five_workouts", title |-> "5 Workouts", ok |-> totalWorkouts >= 5],
     [key |-> "first_completion", title |-> "First Completion", ok |-> completionsTotal >= 1],
     [key |-> "ten_completions", title |-> "10 Completions", ok |-> completionsTotal >= 10],
     [key |-> "streak3", title |-> "Streak Starter", ok |-> streak >= 3],
     [key |-> "streak7", title |-> "Streak Master", ok |-> streak >= 7],
     [key |-> "points100", title |-> "Point Collector", ok |-> points >= 100] >>

\* src/app/App.js; an entry's id is kept in the field key.
computeAchievements(totalWorkouts, totalCompletions, streakDays, completedThisWeek) ==
  << [key |-> "first_workout", title |-> "First Workout", ok |-> totalWorkouts >= 1],
     [key |-> "first_complete", title |-> "First Completion", ok |-> totalCompletions >= 1],
     [key |-> "week_starter", title |-> "Week Starter", ok |-> completedThisWeek >= 2],
     [key |-> "week_machine", title |-> "Week Machine", ok |-> completedThisWeek >= 4],
     [key |-> "week_monster", title |-> "Week Monster", ok |-> completedThisWeek >= 6],
     [key |-> "streak_3", title |-> "3-Day Streak", ok |-> streakDays >= 3],
     [key |-> "streak_7", title |-> "7-Day Streak", ok |-> streakDays >= 7],
     [key |-> "streak_14", title |-> "14-Day Streak", ok |-> streakDays >= 14],
     [key |-> "complete_10", title |-> "10 Completions", ok |-> totalCompletions >= 10],
     [key |-> "complete_25", title |-> "25 Completions", ok |-> totalCompletions >= 25],
     [key |-> "complete_50", title |-> "50 Completions", ok |-> totalCompletions >= 50] >>

\* Counter tuples around the thresholds of each revision; a counter a
\* revision does not read is 0.
Counters ==
  [totalWorkouts : {0, 1, 4, 5}, completions : {0, 1, 9, 10}, streak : {0, 2, 3, 6, 7},
   points : {0, 99, 100}, completedThisWeek : {0}]
CountersApp ==
  [totalWorkouts : {0, 1}, completions : {0, 1, 9, 10, 24, 25, 49, 50},
   streak : {0, 2, 3, 6, 7, 13, 14}, points : {0}, completedThisWeek : 0..6]

\* A second tuple, pointwise at or above the first.
Raises == {0, 1, 100}
Raised(a, rev) ==
  {[totalWorkouts |-> a.totalWorkouts + d[1], completions |-> a.completions + d[2],
    streak |-> a.streak + d[3],
    points |-> IF rev = "App" THEN 0 ELSE a.points + d[4],
    completedThisWeek |-> IF rev = "App" THEN a.completedThisWeek + d[4] ELSE 0] :
     d \in [1..4 -> Raises]}

InitAch ==
  /\ SysInit
  /\ tz = "London"
  /\ now = UtcHour(2024, 6, 15, 20)
  /\ \/ \E a \in Counters : \E b \in Raised(a, "timeline") :
          calc = [stage |-> "counters", rev |-> "timeline", a |-> a, b |-> b]
     \/ \E a \in CountersApp : \E b \in Raised(a, "App") :
          calc = [stage |-> "counters", rev |-> "App", a |-> a, b |-> b]

ApplyAchievements ==
  /\ calc.stage = "counters" /\ calc.rev = "timeline"
  /\ LET f(c) == achievements(c.totalWorkouts, c.completions, c.streak, c.points)
     IN calc' = [calc EXCEPT !.stage = "achievements"] @@ [ra |-> f(calc.a), rb |-> f(calc.b)]
  /\ UNCHANGED <<tz, now, sys>>

ApplyComputeAchievements ==
  /\ calc.stage = "counters" /\ calc.rev = "App"
  /\ LET f(c) == computeAchievements(c.totalWorkouts, c.completions, c.streak,
                                     c.completedThisWeek)
     IN calc' = [calc EXCEPT !.stage = "achievements"] @@ [ra |-> f(calc.a), rb |-> f(calc.b)]
  /\ UNCHANGED <<tz, now, sys>>

NextAch == ApplyAchievements \/ ApplyComputeAchievements

SpecAch == InitAch /\ [][NextAch]_vars

\* ------------------------------------------------------------------------
\* Properties
\* ------------------------------------------------------------------------
Today == LocalDay(tz, now)
HasCompletionOn(day) == \E r \in calc.rows : LocalDay(tz, r) = day
RunOf(k) == /\ \A i \in 0..k : HasCompletionOn(Today - i)
            /\ ~HasCompletionOn(Today - (k + 1))
StreakComputed == calc.stage \in {"streak", "streakDays"}

\* C1: with a completion on the current local day and on each of the k
\* preceding local days, and none on the day k+1 days before today, the
\* streak calculator returns exactly k+1.
C1_StreakIsRunLength ==
  StreakComputed => \A k \in 0..(2 * MaxBack + 2) : RunOf(k) => calc.streak = k + 1

\* C2: with no completion on the current local day the streak calculator
\* returns 0, whatever run of completions ends yesterday.
C2_NoCompletionTodayGivesZero ==
  StreakComputed /\ ~HasCompletionOn(Today) => calc.streak = 0

\* The points the store holds for the user, 0 when there is no settings row.
StoredPoints(row) == IF row.exists /\ row.points # NaN THEN row.points ELSE 0

AwardWritten(c) == wpc[c] = "awardUpsert" /\ wpc'[c] = "idle" /\ ~wl'[c].upsertError

\* C3: under any interleaving of complete/awardPoints and saveSettings, the
\* points stored for the user are never lower than in an earlier state.
C3_PointsNeverDecrease ==
  [][StoredPoints(settings') >= StoredPoints(settings)]_vars

\* C4: awardPoints is a non-atomic read-then-upsert: its upsert stores the
\* value computed from its earlier read, whatever the store holds by then,
\* so two overlapping awards can both complete while one is lost.
C4_UpsertStoresValueOfEarlierRead ==
  [][\A c \in Clients : AwardWritten(c) => settings'.points = wl[c].current + AwardDelta]_vars

\* Two awards, each read and stored without error and without any settings
\* save, after which the store holds 10 points for 2 completions.
C4_Witness ==
  /\ \A c \in Clients : /\ wpc[c] = "idle"
                        /\ wl[c].alert = "Completed +10 points"
                        /\ ~wl[c].readError /\ ~wl[c].upsertError
  /\ Len(completions) = 2
  /\ settings.goal = ""
  /\ settings.points = AwardDelta

\* C5: when awardPoints reads and upserts with the stored points unchanged in
\* between, the stored points afterwards are the previous ones (0 without a
\* settings row) plus delta.
C5_AwardAddsDelta ==
  [][\A c \in Clients :
       AwardWritten(c) /\ ~wl[c].readError /\ StoredPoints(settings) = wl[c].current
         => StoredPoints(settings') = StoredPoints(settings) + AwardDelta]_vars

\* Two awards one after the other, each stored: 20 points for 2 completions.
C5_Witness ==
  /\ \A c \in Clients : wpc[c] = "idle" /\ ~wl[c].readError /\ ~wl[c].upsertError
  /\ \E c \in Clients : wl[c].alert = "Completed +10 points"
  /\ Len(completions) = 2
  /\ settings.goal = ""
  /\ settings.points = 2 * AwardDelta

\* C6: the complete action never reports "+10 points" for an award whose
\* upsert failed.
C6_NoAwardReportedUnlessStored ==
  \A c \in Clients : wl[c].alert = "Completed +10 points" => ~wl[c].upsertError

\* C7: for every non-negative integer p, xpFromPoints(p) has level =
\* floor(p/100)+1, inLevel = p mod 100 with p = (level-1)*100 + inLevel,
\* nextAt = level*100 and pct = inLevel/100 within 0..1.
C7_XpFromPoints ==
  calc.stage = "xp" /\ calc.points >= 0 =>
    LET p == calc.points
        xp == calc.xp
    IN /\ xp.level = (p \div 100) + 1
       /\ xp.inLevel = p % 100
       /\ 0 <= xp.inLevel /\ xp.inLevel < 100
       /\ p = (xp.level - 1) * 100 + xp.inLevel
       /\ xp.nextAt = xp.level * 100
       /\ xp.pct100 = xp.inLevel
       /\ 0 <= xp.pct100 /\ xp.pct100 <= 100

C7_Witness ==
  /\ calc.stage = "xp"
  /\ calc.points = 250
  /\ calc.xp = [level |-> 3, inLevel |-> 50, pct100 |-> 50, nextAt |-> 300]

\* Shapes of a date string.
IsYMDForm(str) ==
  /\ Len(str) = 10
  /\ \A i \in 1..10 : IF i \in {5, 8} THEN str[i] = "-" ELSE IsDigit(str[i])
YearOf(str) == ReadDigits(SubSeq(str, 1, 4), 0)
MonthOf(str) == ReadDigits(SubSeq(str, 6, 7), 0)
DayOf(str) == ReadDigits(SubSeq(str, 9, 10), 0)
IsCalendarDate(str) ==
  /\ IsYMDForm(str)
  /\ MonthOf(str) \in 1..12
  /\ DayOf(str) \in 1..DaysInMonth(YearOf(str), MonthOf(str))

\* C8 as stated: for every string of the form YYYY-MM-DD,
\* dateToYMD(ymdToBounds(s).start) equals s.
FromString == calc.stage \in {"string", "boundsOfString", "ymdOfStart"}

C8_RoundTripEveryDigitString ==
  FromString /\ IsYMDForm(calc.ymd) =>
    /\ calc.stage = "boundsOfString" => ~calc.bounds.threw
    /\ calc.stage = "ymdOfStart" => calc.back = calc.ymd

\* C8 amended: for every string YYYY-MM-DD that names a real calendar date
\* (month 01..12, day 01..length of the month) of a year 1000..9999,
\* dateToYMD(ymdToBounds(s).start) equals s.
C8_RoundTripCalendarDate ==
  FromString /\ IsCalendarDate(calc.ymd) /\ YearOf(calc.ymd) >= 1000 =>
    /\ calc.stage = "boundsOfString" => ~calc.bounds.threw
    /\ calc.stage = "ymdOfStart" => calc.back = calc.ymd

C8_Witness ==
  /\ calc.stage = "ymdOfStart"
  /\ IsCalendarDate(calc.ymd) /\ YearOf(calc.ymd) >= 1000
  /\ MonthOf(calc.ymd) = 2 /\ DayOf(calc.ymd) = 29
  /\ calc.back = calc.ymd

\* C9: for every instant x, the range of ymdToBounds(dateToYMD(x)) contains
\* x: start <= x < end.
C9_BoundsContainInstant ==
  calc.stage = "boundsOfInstant" =>
    /\ ~calc.bounds.threw
    /\ calc.bounds.startISO <= calc.x
    /\ calc.x < calc.bounds.endISO

C9_Witness ==
  /\ calc.stage = "boundsOfInstant"
  /\ tz = "Santiago"
  /\ calc.x = SantiagoDstStart
  /\ calc.bounds.startISO = calc.x

PartNum(str, i) ==
  LET parts == Split(str, "-") IN IF i <= Len(parts) THEN ParseInt(parts[i]) ELSE NaN

YmdOfDay(n) ==
  LET c == CivilFromDays(n)
  IN NatStr(c.y) \o <<"-">> \o TwoDigit(c.m) \o <<"-">> \o TwoDigit(c.d)
DayOfYmd(str) == DaysFromCivil(YearOf(str), MonthOf(str), DayOf(str))

\* The first instant at which zone z shows local day n (its local midnight,
\* or 01:00 where the clocks skip midnight).
DayStart(z, n) ==
  SetMin({t \in (n * HoursPerDay - 3)..(n * HoursPerDay + 6) : LocalDay(z, t) = n})

InRange(b, x) == ~b.threw /\ b.startISO <= x /\ x < b.endISO

\* C11: for every valid calendar date, ymdToBounds returns the range from
\* the start of that local date to the start of the next local date, so the
\* range of the next date begins where this one ends and every instant lies
\* in the range of exactly one date.
C11_BoundsAreTheLocalDay ==
  calc.stage = "boundsOfString" /\ IsCalendarDate(calc.ymd) /\ YearOf(calc.ymd) >= 1000 =>
    LET n == DayOfYmd(calc.ymd)
        b == calc.bounds
        near == [k \in (n - 1)..(n + 1) |-> ymdToBounds(tz, YmdOfDay(k))]
    IN /\ ~b.threw
       /\ b.startISO = DayStart(tz, n)
       /\ b.endISO = DayStart(tz, n + 1)
       /\ b.endISO = near[n + 1].startISO
       /\ \A x \in b.startISO..(b.endISO - 1) :
            {k \in (n - 1)..(n + 1) : InRange(near[k], x)} = {n}

\* Day numbers of Mondays and Sundays (1970-01-05 was a Monday).
IsMonday(n) == (n - 4) % 7 = 0
IsSunday(n) == (n - 3) % 7 = 0

ThisMonday == LocalDay(tz, now) - ((LocalDay(tz, now) - 4) % 7)
WeekStart == DayStart(tz, ThisMonday)
WeeklyComputed == calc.stage \in {"weekly", "weeklyAfter"}

\* C13: the weekly done count computed on load is the number of completions
\* with completed_at at or after the start of the week: 0 without
\* completions, unchanged by one more completion before the week's start,
\* one higher after one more completion at or after it.
C13_WeeklyDoneCountsThisWeek ==
  WeeklyComputed =>
    /\ calc.done = Cardinality({i \in 1..Len(calc.rows) :
                                  calc.rows[i].completed_at >= WeekStart})
    /\ calc.rows = <<>> => calc.done = 0
    /\ calc.stage = "weeklyAfter" =>
         calc.done = calc.before + (IF calc.added >= WeekStart THEN 1 ELSE 0)

\* A completion one hour before the week's start is not counted, one more
\* at the very start of the week is.
C13_Witness ==
  /\ calc.stage = "weeklyAfter"
  /\ calc.by = "weekly"
  /\ calc.added = WeekStart
  /\ \E i \in 1..Len(calc.rows) : calc.rows[i].completed_at = WeekStart - 1
  /\ calc.before = 0
  /\ calc.done = 1

RECURSIVE SumCounts(_)
SumCounts(buckets) ==
  IF buckets = <<>> THEN 0 ELSE Head(buckets).count + SumCounts(Tail(buckets))

RowsOnDay(rows, n) == Cardinality({i \in 1..Len(rows) : LocalDay(tz, rows[i].completed_at) = n})

\* C14: every timeline has exactly 14 buckets, oldest first, one per
\* consecutive local calendar day ending today, with pairwise distinct date
\* keys; the last bucket is the only one with isToday = TRUE.
C14_FourteenConsecutiveDays ==
  calc.stage = "timeline" =>
    LET tl == calc.timeline
    IN /\ Len(tl) = 14
       /\ \A j \in 1..Len(tl) : tl[j].ymd = YmdOfDay(Today - (Len(tl) - j))
       /\ \A j, k \in 1..Len(tl) : j # k => tl[j].ymd # tl[k].ymd
       /\ \A j \in 1..Len(tl) : tl[j].isToday <=> j = Len(tl)

\* A window that begins in the old year and ends on New Year's Day.
C14_Witness ==
  /\ calc.stage = "timeline"
  /\ now = UtcHour(2024, 1, 1, 3)
  /\ tz = "Athens"
  /\ calc.timeline[1].ymd = YmdOfDay(DaysFromCivil(2023, 12, 19))
  /\ calc.timeline[13].ymd = YmdOfDay(DaysFromCivil(2023, 12, 31))
  /\ calc.timeline[14].isToday

\* C15: each bucket's count is the number of completions on the bucket's
\* local calendar date; the counts add up to the number of completions dated
\* inside the 14-day window, a completion outside it adding to no bucket.
C15_BucketCountsByLocalDate ==
  calc.stage = "timeline" =>
    LET tl == calc.timeline
    IN /\ \A j \in 1..Len(tl) :
            tl[j].count = RowsOnDay(calc.rows, DayOfYmd(tl[j].ymd))
       /\ SumCounts(tl) =
            Cardinality({i \in 1..Len(calc.rows) :
                           LocalDay(tz, calc.rows[i].completed_at) \in (Today - 13)..Today})

\* One completion in the first hour of the window, one 20 days ago.
C15_Witness ==
  /\ calc.stage = "timeline"
  /\ Len(calc.rows) = 2
  /\ calc.rows[1].completed_at = DayStart(tz, Today - 13)
  /\ calc.rows[2].completed_at = now - 20 * HoursPerDay
  /\ calc.timeline[1].count = 1
  /\ SumCounts(calc.timeline) = 1

\* The rows of the store a day's list has to hold: the user's, inside the
\* range of ymdToBounds.
InDayRange(r, ymd) ==
  LET b == ymdToBounds(tz, ymd)
  IN r.user_id = User /\ b.startISO <= r.completed_at /\ r.completed_at < b.endISO

\* C16: the day-details load for ymd returns exactly the user's completions
\* with start <= completed_at < end of ymdToBounds(ymd), ordered by
\* completed_at descending; none of them is a completion of another user or
\* of another day.
C16_DayRowsAreTheDaysCompletions ==
  [][\A i \in 1..MaxLoads : DayLoadCompletions(i, TRUE) =>
       LET ymd  == dloads[i].ymd
           rows == dayScreen'.rows
       IN /\ \A r \in 1..Len(completions) :
               InDayRange(completions[r], ymd)
                 <=> \E k \in 1..Len(rows) : rows[k].id = completions[r].id
          /\ Len(rows) = Cardinality({r \in 1..Len(completions) :
                                        InDayRange(completions[r], ymd)})
          /\ \A k, l \in 1..Len(rows) :
               k < l => rows[k].completed_at >= rows[l].completed_at
          /\ \A k \in 1..Len(rows) :
               LocalDay(tz, rows[k].completed_at) = DayOfYmd(ymd)]_vars

\* A load of the Day details returns: its last reply arrives.
DayLoadReturns ==
  \E i \in 1..MaxLoads :
    \/ DayLoadCompletions(i, TRUE) /\ Len(dloads') < Len(dloads)
    \/ \E ok \in BOOLEAN : DayLoadWorkouts(i, ok)

NoWorkout(r) == r.workout_id = Null \/ r.workout_id \notin workouts

\* C17: when a load returns, every row returned for the day is displayed;
\* a row whose workout_id is null or names a workout that is not in the
\* store shows the label "Workout", and the load raises no failure.
C17_RowsWithoutWorkoutAreShown ==
  [][DayLoadReturns =>
       LET shown == DayShown(dayScreen')
           rows  == dayScreen'.rows
       IN /\ ~dayScreen'.loading
          /\ dayScreen'.alert = dayScreen.alert
          /\ Len(shown) = Len(rows)
          /\ \A k \in 1..Len(rows) :
               /\ shown[k].id = rows[k].id
               /\ NoWorkout(rows[k]) => shown[k].title = Placeholder]_vars

\* A day with a completion without workout_id and one of a deleted workout.
C17_Witness ==
  /\ dayScreen.mounted /\ ~dayScreen.loading /\ dloads = <<>>
  /\ dayScreen.alert = "none"
  /\ workouts = {}
  /\ Len(dayScreen.rows) = 2
  /\ \E k \in 1..2 : dayScreen.rows[k].workout_id = Null
  /\ \E k \in 1..2 : dayScreen.rows[k].workout_id = "w1"
  /\ \A k \in 1..2 : DayShown(dayScreen)[k].title = Placeholder

AtLeast(a, b) == \A f \in DOMAIN a : b[f] >= a[f]

\* C18: for two counter tuples of which the second is pointwise at or above
\* the first, every achievement unlocked for the first is unlocked for the
\* second.
C18_AchievementsMonotonic ==
  calc.stage = "achievements" /\ AtLeast(calc.a, calc.b) =>
    /\ Len(calc.ra) = Len(calc.rb)
    /\ \A i \in 1..Len(calc.ra) :
         /\ calc.ra[i].key = calc.rb[i].key
         /\ calc.ra[i].ok => calc.rb[i].ok

\* A streak raised from 3 to 4 with "Streak Starter" unlocked before and
\* after.
C18_Witness ==
  /\ calc.stage = "achievements" /\ calc.rev = "timeline"
  /\ calc.a.streak = 3 /\ calc.b.streak = 4
  /\ calc.ra[5].ok /\ calc.rb[5].ok

\* The rules in table order: key, the counter read and its threshold.
Rules(rev) ==
  IF rev = "timeline"
  THEN << <<"first_workout", "totalWorkouts", 1>>, <<"five_workouts", "totalWorkouts", 5>>,
          <<"first_completion", "completions", 1>>, <<"ten_completions", "completions", 10>>,
          <<"streak3", "streak", 3>>, <<"streak7", "streak", 7>>,
          <<"points100", "points", 100>> >>
  ELSE << <<"first_workout", "totalWorkouts", 1>>, <<"first_complete", "completions", 1>>,
          <<"week_starter", "completedThisWeek", 2>>,
          <<"week_machine", "completedThisWeek", 4>>,
          <<"week_monster", "completedThisWeek", 6>>,
          <<"streak_3", "streak", 3>>, <<"streak_7", "streak", 7>>,
          <<"streak_14", "streak", 14>>, <<"complete_10", "completions", 10>>,
          <<"complete_25", "completions", 25>>, <<"complete_50", "completions", 50>> >>

FollowsRules(c, res, rules) ==
  /\ Len(res) = Len(rules)
  /\ \A i \in 1..Len(rules) :
       /\ res[i].key = rules[i][1]
       /\ res[i].ok <=> c[rules[i][2]] >= rules[i][3]

OnlyFirstWorkout(c) ==
  /\ c.totalWorkouts = 1
  /\ \A f \in DOMAIN c \ {"totalWorkouts"} : c[f] = 0

\* C19: the evaluation returns one entry per rule, in table order for every
\* input, each unlocked exactly when its own counter is at or above its
\* threshold whatever the other counters are; with totalWorkouts = 1 and
\* every other counter 0 only "First Workout" is unlocked.
C19_OneEntryPerRule ==
  calc.stage = "achievements" =>
    /\ FollowsRules(calc.a, calc.ra, Rules(calc.rev))
    /\ FollowsRules(calc.b, calc.rb, Rules(calc.rev))
    /\ OnlyFirstWorkout(calc.a) =>
         \A i \in 1..Len(calc.ra) : calc.ra[i].ok <=> calc.ra[i].title = "First Workout"

C19_Witness ==
  /\ calc.stage = "achievements" /\ calc.rev = "timeline"
  /\ OnlyFirstWorkout(calc.a)
  /\ calc.ra[1].ok
  /\ \A i \in 2..7 : ~calc.ra[i].ok
  /\ calc.b.points = 100 /\ calc.b.completions = 0 /\ calc.rb[7].ok

\* A 24-hour time HH:MM: hour 00..23, minute 00..59.
IsTimeOfDay(str) ==
  /\ IsHHMM(str)
  /\ ReadDigits(SubSeq(str, 1, 2), 0) \in 0..23
  /\ ReadDigits(SubSeq(str, 4, 5), 0) \in 0..59

\* C20: every reminder_time that saveSettings writes to the store is a
\* 24-hour HH:MM time, hour 00..23 and minute 00..59, and so is the time of
\* every reminder it schedules; an input that is no such time is replaced by
\* "19:00" before the write.
C20_ReminderTimeIsTimeOfDay ==
  /\ settings.exists => IsTimeOfDay(settings.reminder_time)
  /\ \A c \in Clients : \A i \in 1..Len(scheduled[c]) :
       scheduled[c][i].hour \in 0..23 /\ scheduled[c][i].minute \in 0..59
  /\ \A c \in Clients : dpc[c] = "saveUpsert" =>
       /\ IsTimeOfDay(dl[c].payload.reminder_time)
       /\ ~IsTimeOfDay(Trim(dl[c].reminderTime)) => dl[c].payload.reminder_time = T1900

\* C21: every weekly_target a settings save or a profile save has written to
\* the store is a positive integer.
IsPositiveInteger(tenths) == tenths # NaN /\ tenths > 0 /\ tenths % 10 = 0
C21_WeeklyTargetIsPositiveInteger ==
  /\ settings.exists => IsPositiveInteger(settings.weekly_target * 10)
  /\ profiles.exists => IsPositiveInteger(profiles.weekly_target)

\* C22: on every device at most one reminder is scheduled; a save that gets
\* as far as the notifications leaves exactly one reminder, at the saved hour
\* and minute, when reminders are enabled and permitted, and none otherwise.
SavedTrigger(row) ==
  [hour |-> ParseInt(SubSeq(row.reminder_time, 1, 2)),
   minute |-> ParseInt(SubSeq(row.reminder_time, 4, 5))]
C22_AtMostOneReminder ==
  /\ [](\A c \in Clients : Len(scheduled[c]) <= 1)
  /\ [][\A c \in DashClients, granted \in BOOLEAN :
          SaveNotify(c, granted) =>
            scheduled'[c] = IF settings.reminders_enabled /\ granted
                            THEN <<SavedTrigger(settings)>> ELSE <<>>]_vars
C22_Witness ==
  /\ dpc["c1"] = "idle"
  /\ dl["c1"].alert = "Saved"
  /\ settings.reminders_enabled
  /\ settings.reminder_time = <<"0", "7", ":", "3", "0">>
  /\ scheduled["c1"] = <<[hour |-> 7, minute |-> 30]>>

\* C26: every run of saveSettings is followed by savingSettings = false:
\* whenever the save control is disabled, it is enabled again later.
C26_SavingSettingsIsReset ==
  \A c \in DashClients : dl[c].savingSettings ~> ~dl[c].savingSettings

\* C23: a complete action whose insert succeeds adds exactly one completion
\* row, for the chosen workout, leaves the points as they are and goes on to
\* awardPoints(10), which is started by nothing else; when the insert fails
\* no row is added, awardPoints is not run, the stored points are unchanged
\* and "Complete failed" is shown.
InsertedOne(w) ==
  /\ Len(completions') = Len(completions) + 1
  /\ SubSeq(completions', 1, Len(completions)) = completions
  /\ completions'[Len(completions')].workout_id = w
  /\ completions'[Len(completions')].user_id = User
C23_CompleteInsertsThenAwards ==
  [][\A c \in Clients :
       /\ \A w \in Workouts :
            /\ Complete(c, w, TRUE) =>
                 /\ InsertedOne(w)
                 /\ settings' = settings
                 /\ wpc'[c] = "awardRead"
            /\ Complete(c, w, FALSE) =>
                 /\ completions' = completions
                 /\ settings' = settings
                 /\ wpc'[c] = "idle"
                 /\ wl'[c].alert = "Complete failed"
       /\ (wpc[c] # "awardRead" /\ wpc'[c] = "awardRead") =>
            Len(completions') = Len(completions) + 1
       /\ \A ok \in BOOLEAN :
            AwardRead(c, ok) => wl'[c].next = wl'[c].current + 10]_vars
C23_Witness ==
  /\ wl["c1"].alert = "Complete failed"
  /\ wpc["c1"] = "idle"
  /\ wl["c2"].alert = "Completed +10 points"
  /\ ~wl["c2"].upsertError
  /\ Len(completions) = 1
  /\ StoredPoints(settings) = 10

\* C24: when a read of the dashboard load fails, the screen shows the
\* failure: it does not present the failed read as an empty result.
ReportsFailure(d) == d.alert \notin {"none", "Saved"}
C24_FailedReadIsSurfaced ==
  [][\A c \in DashClients :
       /\ DashLoadSettings(c, FALSE) => ReportsFailure(dl'[c])
       /\ DashLoadWorkouts(c, FALSE) => ReportsFailure(dl'[c])
       /\ DashLoadCompletions(c, FALSE) => ReportsFailure(dl'[c])]_vars

\* C25: once every load of the day-details screen has returned (none of them
\* with an error), the rows displayed are rows of the day currently selected:
\* each lies within the bounds load() computes for that day.
RowsOfSelectedDay(d) ==
  LET b == ymdToBounds(tz, d.ymd)
  IN \A i \in 1..Len(d.rows) :
       b.startISO <= d.rows[i].completed_at /\ d.rows[i].completed_at < b.endISO
C25_LateResponseHasNoEffect ==
  (dayScreen.mounted /\ dloads = <<>> /\ dayScreen.alert = "none")
    => RowsOfSelectedDay(dayScreen)

\* C27: the steps of a complete action (the insert, awardPoints' read and its
\* upsert) leave goal, level, weekly_target, reminders_enabled and
\* reminder_time of the settings row as they were.
KeptColumns == {"goal", "level", "weekly_target", "reminders_enabled", "reminder_time"}
C27_AwardKeepsOtherColumns ==
  [][\A c \in Clients, ok \in BOOLEAN :
       ((\E w \in Workouts : Complete(c, w, ok)) \/ AwardRead(c, ok) \/ AwardUpsert(c, ok))
         => \A f \in KeptColumns : settings'[f] = settings[f]]_vars
C27_Witness ==
  /\ dpc["c1"] = "idle"
  /\ dl["c1"].points = 0
  /\ settings.exists
  /\ settings.goal = "General Fitness"
  /\ settings.weekly_target = 3
  /\ settings.points = 10
  /\ wl["c2"].alert = "Completed +10 points"
  /\ ~wl["c2"].upsertError

\* C28: for every day of the timeline, the count of the day's bucket equals
\* the number of rows the Day details load returns for that day from the same
\* completions.
C28_BucketCountEqualsDayRows ==
  calc.stage = "dayRows" => calc.timeline[calc.bucket].count = Len(calc.dayRows)

\* C29: the streak calculators return a result s for every finite set of
\* completions, with 0 <= s <= the number of distinct local days that have a
\* completion.
CompletionDays == {LocalDay(tz, r) : r \in calc.rows}
C29_StreakBoundedByCompletionDays ==
  StreakComputed => 0 <= calc.streak /\ calc.streak <= Cardinality(CompletionDays)

\* C30: in the rest timer the remaining seconds stay within 0..1800 and at
\* most one interval is active, and a tick that finds the remaining seconds
\* <= 1 sets them to 0 and stops the countdown: running is false and no
\* interval is left.
C30_TimerStaysInRange ==
  /\ [](timer.secs \in 0..1800 /\ timer.intervals <= 1)
  /\ [][(TimerTick /\ timer.secs <= 1) =>
          (timer'.secs = 0 /\ ~timer'.running /\ timer'.intervals = 0)]_vars
C30_Witness ==
  /\ timer.open
  /\ timer.secs = 0
  /\ ~timer.running
  /\ timer.intervals = 0
  /\ timer.alert = "Rest done"

====
